---- MODULE Spec2Model ----
(***************************************************************************)
(* kebisafe: media ingestion and identity lifecycle.                       *)
(*                                                                         *)
(* The record store (table `media`), the artifact store (files under the   *)
(* media root) and the request handlers that change them, together with    *)
(* the pure functions the handlers call (validate_image_file,              *)
(* create_thumbnail), and the session each web request comes with.         *)
(***************************************************************************)
EXTENDS Integers, Sequences, FiniteSets, TLC

VARIABLES
    media,      \* the rows of table `media`, in insertion order
    files,      \* the artifact store: a function from path to content
    clock,      \* the wall clock read by OffsetDateTime::now_local
    pc,         \* per request slot: the handler's position
    req,        \* per request slot: the request's inputs and the handler's locals
    session,    \* per request slot: the session the request came with
    arg,        \* input of the pure function under check
    ret         \* its result

vars == <<media, files, clock, pc, req, session, arg, ret>>

(***************************************************************************)
(* Bounds of the model.                                                    *)
(***************************************************************************)
\* concurrent requests of the lifecycle specification
NumReqs == 2
\* outcomes of the random generator considered per draw
MaxSeed == 1
\* concurrent create requests of the create-only specification
NumCreators == 6
\* rows of the tables that are listed
MaxRows == 3
\* timestamps of the rows that are listed: 1..MaxTime
MaxTime == 3
\* largest limit of a listing
MaxLimit == 2

(***************************************************************************)
(* Option values.                                                          *)
(***************************************************************************)
None == [some |-> FALSE]

Some(x) == [some |-> TRUE, val |-> x]

Min(a, b) == IF a <= b THEN a ELSE b

Max(a, b) == IF a >= b THEN a ELSE b

\* u32 subtraction a - b: the difference, and whether it wrapped below zero
\* (a panic in a debug build, a value of 2^32 + a - b in a release build)
SubU32(a, b) == [wrapped |-> a < b, val |-> a - b]

\* the halving forgotten: the window starts at the full difference
HalfU32NotHalved(d) == d

\* u32 division by two of a difference
HalfU32(d) == [wrapped |-> d.wrapped, val |-> IF d.wrapped THEN d.val ELSE d.val \div 2]

\* cmp::min(v, limit) for a u32 v: a wrapped half difference is at least
\* 2^31 - 2^30 and exceeds every image dimension
MinU32(v, limit) == IF v.wrapped THEN limit ELSE Min(v.val, limit)

(***************************************************************************)
(* action/media.rs: validation.                                            *)
(***************************************************************************)
ALLOWED_TYPES == {<<"image/png", "Png">>, <<"image/jpeg", "Jpeg">>, <<"image/gif", "Gif">>}

THUMBNAIL_WIDTH == 320

THUMBNAIL_HEIGHT == 180

\* position of the last "." of a file name, 0 when there is none
LastDot(name) ==
    LET dots == {i \in 1..Len(name) : name[i] = "."}
    IN IF dots = {} THEN 0 ELSE CHOOSE i \in dots : \A j \in dots : j <= i

\* Path::extension: the part after the last ".", absent when the name has no
\* "." or only a leading one
Extension(name) ==
    LET d == LastDot(name)
    IN IF d = 0 \/ d = 1 \/ name = <<".", ".">>
       THEN None
       ELSE Some(SubSeq(name, d + 1, Len(name)))

\* MimeGuess::from_ext(ext).first(): the extensions the model's uploads use;
\* no content type is registered for the others ("qq", the empty extension)
MimeFromExt(ext) ==
    CASE ext = <<"p", "n", "g">> -> Some("image/png")
      [] ext = <<"j", "p", "g">> -> Some("image/jpeg")
      [] ext = <<"j", "p", "e", "g">> -> Some("image/jpeg")
      [] ext = <<"g", "i", "f">> -> Some("image/gif")
      [] ext = <<"w", "e", "b", "p">> -> Some("image/webp")
      [] ext = <<"b", "m", "p">> -> Some("image/bmp")
      [] ext = <<"t", "x", "t">> -> Some("text/plain")
      [] OTHER -> None

\* image::guess_format: the format the leading bytes announce
GuessFormat(data) ==
    IF data.magic \in {"Png", "Jpeg", "Gif", "WebP", "Bmp"} THEN Some(data.magic) ELSE None

\* image::load_from_memory_with_format: decodes only a well-formed body of that format
LoadFromMemoryWithFormat(data, format) ==
    IF data.magic = format /\ data.decodes
    THEN Some([width |-> data.width, height |-> data.height])
    ELSE None

Ok(v) == [ok |-> TRUE, val |-> v]

Err(e) == [ok |-> FALSE, err |-> e]

\* the comparison with the type of the extension dropped: any recognised format passes
SniffAcceptedAnyFormat(sniffed, detected_type) == sniffed.some

\* the sniffed format is accepted only when it is the type of the extension
SniffAccepted(sniffed, detected_type) == sniffed.some /\ sniffed.val = detected_type

\* the predicate of find compares nothing: the first allowed type is taken
DetectedTypeFirstEntry(mime) == Some("Png")

\* ALLOWED_TYPES.iter().find(|ty| ty.0 == mime): the format of an allowed type
DetectedType(mime) ==
    LET tys == {ty \in ALLOWED_TYPES : ty[1] = mime}
    IN IF tys = {} THEN None ELSE Some((CHOOSE ty \in tys : TRUE)[2])

validate_image_file(filename, data) ==
    LET extension == Extension(filename)
    IN IF ~extension.some THEN Err("Cannot determine file type")
       ELSE LET mime == MimeFromExt(extension.val)
            IN IF ~mime.some THEN Err("Cannot determine file type")
               ELSE LET detected_type == DetectedType(mime.val)
                    IN IF ~detected_type.some THEN Err("Unsupported file type")
                       ELSE LET sniffed == GuessFormat(data)
                            IN IF ~SniffAccepted(sniffed, detected_type.val)
                               THEN Err("Unsupported image type")
                               ELSE LET image == LoadFromMemoryWithFormat(data, sniffed.val)
                                    IN IF ~image.some THEN Err("decode error")
                                       ELSE Ok([image |-> image.val,
                                                format |-> sniffed.val,
                                                filesize |-> data.size])

(***************************************************************************)
(* action/media.rs: thumbnails.                                            *)
(***************************************************************************)
\* imageops::crop_imm: the window clamped to the image (crop_dimms)
CropImm(iwidth, iheight, x, y, width, height) ==
    LET cx == MinU32(x, iwidth)
        cy == MinU32(y, iheight)
    IN [op |-> "crop",
        x |-> cx,
        y |-> cy,
        width |-> Min(width, iwidth - cx),
        height |-> Min(height, iheight - cy),
        wrapped |-> x.wrapped \/ y.wrapped]

\* DynamicImage::resize: the largest size inside nwidth x nheight that keeps
\* the aspect ratio (image::math::utils::resize_dimensions with fill = false)
ResizeDimensions(width, height, nwidth, nheight) ==
    LET ratio == width * nheight
        nratio == nwidth * height
        use_width == nratio <= ratio
        intermediate == Max(1, IF use_width
                               THEN (height * nwidth) \div width
                               ELSE (width * nheight) \div height)
    IN IF use_width
       THEN [width |-> nwidth, height |-> intermediate]
       ELSE [width |-> intermediate, height |-> nheight]

\* resize_exact in place of resize: the box itself, whatever the aspect ratio
ResizeExact(width, height, nwidth, nheight) ==
    [op |-> "resize", x |-> 0, y |-> 0, width |-> nwidth, height |-> nheight,
     wrapped |-> FALSE]

Resize(width, height, nwidth, nheight) ==
    LET d == ResizeDimensions(width, height, nwidth, nheight)
    IN [op |-> "resize", x |-> 0, y |-> 0, width |-> d.width, height |-> d.height,
        wrapped |-> FALSE]

Exact(v) == [wrapped |-> FALSE, val |-> v]

\* strict comparisons: an image of exactly the box's size gets a thumbnail
FitsBoxStrict(width, height) == width < THUMBNAIL_WIDTH /\ height < THUMBNAIL_HEIGHT

\* the first test of create_thumbnail: the original fits the thumbnail box
FitsBox(width, height) == width <= THUMBNAIL_WIDTH /\ height <= THUMBNAIL_HEIGHT

\* the second test: only the height overflows
ClipTopBottom(width, height) == width <= THUMBNAIL_WIDTH

\* the third test: only the width overflows
ClipLeftRight(width, height) == height <= THUMBNAIL_HEIGHT

create_thumbnail(width, height) ==
    IF FitsBox(width, height) THEN None
    ELSE IF ClipTopBottom(width, height)
    THEN LET top_half == HalfU32(SubU32(height, THUMBNAIL_HEIGHT))
         IN Some(CropImm(width, height, Exact(0), top_half, width, THUMBNAIL_HEIGHT))
    ELSE IF ClipLeftRight(width, height)
    THEN LET left_half == HalfU32(SubU32(width, THUMBNAIL_WIDTH))
         IN Some(CropImm(width, height, left_half, Exact(0), THUMBNAIL_WIDTH, height))
    ELSE Some(Resize(width, height, THUMBNAIL_WIDTH, THUMBNAIL_HEIGHT))

(***************************************************************************)
(* action/media.rs: writing an image file.                                 *)
(***************************************************************************)
\* outcomes of save_image: the file written whole; File::create failed and
\* nothing was written; the file was created and the encoder failed
SaveOutcomes == {"ok", "create_failed", "encode_failed"}

\* nothing is written, whatever save_image reports
save_image_writes_nothing(store, image, format, path, outcome) == store

\* the artifact store after save_image(image, format, path) ended with outcome
save_image(store, image, format, path, outcome) ==
    IF outcome = "create_failed" THEN store
    ELSE [q \in DOMAIN store \cup {path} |->
            IF q = path
            THEN [format |-> format, width |-> image.width, height |-> image.height,
                  complete |-> outcome = "ok"]
            ELSE store[q]]

\* the file is left where it is
RemoveFileKeepsFile(store, path) == store

\* fs::remove_file: the store without the file
RemoveFile(store, path) == [q \in DOMAIN store \ {path} |-> store[q]]

\* media_root.join(format!("{}.{}", hash_id, extension))
OriginalPath(hash_id, extension) == <<"", hash_id, extension>>

\* the path of the thumbnail of another id
ThumbnailPathOtherId(hash_id) == <<"thumbnails", <<"0">>, "jpg">>

\* media_root.join(format!("thumbnails/{}.jpg", hash_id))
ThumbnailPath(hash_id) == <<"thumbnails", hash_id, "jpg">>

(***************************************************************************)
(* action/database.rs: the table `media`.                                  *)
(***************************************************************************)
HASH_CHARS ==
    << "0", "1", "2", "3", "4", "5", "6", "7", "8", "9", "a", "b", "c", "d", "e", "f", "g", "h",
       "i", "j", "k", "l", "m", "n", "o", "p", "q", "r", "s", "t", "u", "v", "w", "x", "y", "z" >>

HASH_MIN_LENGTH == 6

\* one turn more than MAX_RETRY
MAX_RETRY_AND_ONE == HASH_MIN_LENGTH

MAX_RETRY == 5

\* the outcomes of the random generator the model considers
Seeds == 0..(MaxSeed - 1)

\* independent draws: the same index may come up again
IndexSampleWithReplacement(len, amount, seed) == [k \in 1..amount |-> ((seed + (k % 2)) % len) + 1]

\* rand::seq::index::sample(rng, len, amount): amount distinct indices below
\* len; for generator outcome `seed`, the run of indices that starts at seed
IndexSample(len, amount, seed) == [k \in 1..amount |-> ((seed + k - 1) % len) + 1]

\* the amount asked for is not heeded: HASH_MIN_LENGTH symbols are drawn
choose_multiple_min_length(chars, amount, seed) ==
    [k \in 1..HASH_MIN_LENGTH |-> chars[IndexSample(Len(chars), HASH_MIN_LENGTH, seed)[k]]]

\* chars.choose_multiple(rng, amount).collect(): the symbols at the sampled
\* indices, amount capped at the number of symbols
choose_multiple(chars, amount, seed) ==
    LET n == Min(amount, Len(chars))
        idx == IndexSample(Len(chars), n, seed)
    IN [k \in 1..n |-> chars[idx[k]]]

\* ImageFormat::extensions_str()[0]
ExtensionsStr(format) ==
    CASE format = "Png" -> "png"
      [] format = "Jpeg" -> "jpg"
      [] format = "Gif" -> "gif"

\* the row is inserted as one without a thumbnail
NewRowWithoutThumbnail(hash, validated_image, thumbnail, private, now) ==
    [hash_id |-> hash,
     extension |-> ExtensionsStr(validated_image.format),
     has_thumbnail |-> FALSE,
     is_private |-> private,
     width |-> validated_image.image.width,
     height |-> validated_image.image.height,
     filesize |-> validated_image.filesize,
     comment |-> None,
     uploaded |-> now]

\* the row of the INSERT statement; comment is left NULL
NewRow(hash, validated_image, thumbnail, private, now) ==
    [hash_id |-> hash,
     extension |-> ExtensionsStr(validated_image.format),
     has_thumbnail |-> thumbnail,
     is_private |-> private,
     width |-> validated_image.image.width,
     height |-> validated_image.image.height,
     filesize |-> validated_image.filesize,
     comment |-> None,
     uploaded |-> now]

\* no constraint on hash_id: every insert is accepted
UniqueViolationNever(table, row) == FALSE

\* the uniqueness constraint of the table on hash_id
UniqueViolation(table, row) == \E k \in DOMAIN table : table[k].hash_id = row.hash_id

\* every error is taken for another kind of failure
is_conflicting_never(sqlstate) == FALSE

\* SQLSTATE 23___ is a constraint error
is_conflicting(sqlstate) == sqlstate[1] = "23"

\* SQLSTATE values, as <<class, rest>>
SqlOk == <<"00", "000">>

SqlUniqueViolation == <<"23", "505">>

SqlConnectionFailure == <<"08", "006">>

\* the WHERE clause dropped: the first row of the table is returned
fetch_media_first_row(table, hash_id) ==
    IF table = <<>> THEN None ELSE Some(table[1])

\* SELECT * FROM media WHERE hash_id = $1, fetch_optional
fetch_media(table, hash_id) ==
    LET hits == {k \in DOMAIN table : table[k].hash_id = hash_id}
    IN IF hits = {} THEN None ELSE Some(table[CHOOSE k \in hits : \A j \in hits : k <= j])

\* every row is listed, private or not
ListableAny(row) == TRUE

\* WHERE is_private = FALSE
Listable(row) == row.is_private = FALSE

\* the row itself passes the cursor
NotNewerThan(row, latest) == row.uploaded <= latest

\* WHERE uploaded < $1
OlderThan(row, latest) == row.uploaded < latest

\* the oldest rows come first
FirstInAscendingOrder(rows) == {r \in rows : \A o \in rows : r.uploaded <= o.uploaded}

\* ORDER BY uploaded DESC: the rows that may come first, the newest ones; rows
\* with the same timestamp come in an order the statement does not fix
FirstInOrder(rows) == {r \in rows : \A o \in rows : r.uploaded >= o.uploaded}

RECURSIVE OrderedLimited(_, _)
\* ORDER BY uploaded DESC LIMIT $2: the sequences the statement may return
OrderedLimited(rows, limit) ==
    IF limit = 0 \/ rows = {} THEN {<<>>}
    ELSE UNION {{<<r>> \o rest : rest \in OrderedLimited(rows \ {r}, limit - 1)} :
                    r \in FirstInOrder(rows)}

\* fetch_media_list: the lists of rows the query may return
fetch_media_list(table, latest, limit) ==
    LET selected == {table[k] : k \in {j \in DOMAIN table :
                        /\ Listable(table[j])
                        /\ latest.some => OlderThan(table[j], latest.val)}}
    IN OrderedLimited(selected, limit)

MEDIA_LIST_COUNT == 50

\* web/endpoint/media.rs, list_media: the listing of the index page, the same
\* for every caller (the handler does not look at the session's account)
list_media(table) == fetch_media_list(table, None, MEDIA_LIST_COUNT)

\* is_private is flipped where it should be set
update_media_record_flip(table, hash_id, private, comment) ==
    [k \in DOMAIN table |->
        IF table[k].hash_id = hash_id
        THEN [table[k] EXCEPT !.is_private = ~@, !.comment = Some(comment)]
        ELSE table[k]]

\* the WHERE clause dropped: every row is updated
update_media_record_every_row(table, hash_id, private, comment) ==
    [k \in DOMAIN table |-> [table[k] EXCEPT !.is_private = private, !.comment = Some(comment)]]

\* UPDATE media SET is_private = $1, comment = $2 WHERE hash_id = $3
update_media_record(table, hash_id, private, comment) ==
    [k \in DOMAIN table |->
        IF table[k].hash_id = hash_id
        THEN [table[k] EXCEPT !.is_private = private, !.comment = Some(comment)]
        ELSE table[k]]

\* the statement deletes nothing
remove_media_record_no_row(table, hash_id) == table

\* DELETE FROM media WHERE hash_id = $1
remove_media_record(table, hash_id) ==
    LET Keep(row) == row.hash_id # hash_id
    IN SelectSeq(table, Keep)

(***************************************************************************)
(* The session of a request (action/session.rs) and ensure_login!          *)
(* (web/mod.rs).                                                           *)
(***************************************************************************)
\* enum Flash, its variants in the order of the declaration
FlashLevels == <<"Info", "Warning", "Error">>

Info(text) == [level |-> "Info", text |-> text]

Warning(text) == [level |-> "Warning", text |-> text]

Error(text) == [level |-> "Error", text |-> text]

\* the messages of the handlers, in the byte order of their texts ({} stands
\* for the id or the error the handler formats in; an id is digits and
\* letters, so "Media <id> not found" comes before or after "Media has ..."
\* as the id begins, and no list of the model holds both under one variant)
FlashTexts ==
    << "Failed to validate image: {}",
       "Media {} not found",
       "Media has been deleted successfully.",
       "Media has been uploaded successfully! ID is {}",
       "Media information has been updated successfully.",
       "Please sign in",
       "Signed out successfully.",
       "User not found",
       "Validation error: {}",
       "Welcome back, {}" >>

Rank(seq, x) == CHOOSE i \in DOMAIN seq : seq[i] = x

\* derive(PartialOrd, Ord) on Flash: by variant, then by text
FlashLess(a, b) ==
    \/ Rank(FlashLevels, a.level) < Rank(FlashLevels, b.level)
    \/ /\ a.level = b.level
       /\ Rank(FlashTexts, a.text) < Rank(FlashTexts, b.text)

RECURSIVE SortDedupSet(_)
SortDedupSet(flashes) ==
    IF flashes = {} THEN <<>>
    ELSE LET least == CHOOSE f \in flashes : \A g \in flashes \ {f} : FlashLess(f, g)
         IN <<least>> \o SortDedupSet(flashes \ {least})

\* the list is stored as it was given
SortDedupNot(new_flashes) == new_flashes

\* new_flashes.sort(); new_flashes.dedup();
SortDedup(new_flashes) == SortDedupSet({new_flashes[i] : i \in DOMAIN new_flashes})

\* the flashes of the session are returned and stay in it with the new ones
swap_flashes_keeps(s, new_flashes) ==
    [old |-> s.flashes, session |-> [s EXCEPT !.flashes = SortDedup(s.flashes \o new_flashes)]]

\* swap_flashes: the flashes of the session are taken out and the new ones
\* stored, sorted and without repetitions
swap_flashes(s, new_flashes) ==
    [old |-> s.flashes, session |-> [s EXCEPT !.flashes = SortDedup(new_flashes)]]

get_account(s) == s.account

delete_account(s) == [s EXCEPT !.account = None]

set_account(s, account) == [s EXCEPT !.account = Some(account)]

\* ensure_login!: the account of the session, or the flash "Please sign in"
\* pushed to the flashes of the session and the redirect to /signin
ensure_login(s) ==
    LET account == get_account(s)
    IN IF account.some
       THEN [ok |-> TRUE, session |-> s]
       ELSE LET taken == swap_flashes(s, <<>>)
                old_flash == Append(taken.old, Info("Please sign in"))
            IN [ok |-> FALSE, session |-> swap_flashes(taken.session, old_flash).session]

\* validate_form!: the form of the request, or the flash "Validation error"
\* pushed to the flashes of the session and the redirect
validate_form(s, form) ==
    IF form # "invalid"
    THEN [ok |-> TRUE, session |-> s]
    ELSE LET taken == swap_flashes(s, <<>>)
             old_flash == Append(taken.old, Error("Validation error: {}"))
         IN [ok |-> FALSE, session |-> swap_flashes(taken.session, old_flash).session]

\* the session of the owner after signin, its flashes shown
SignedIn == [account |-> Some("owner"), flashes |-> <<>>]

(***************************************************************************)
(* The request handlers.                                                   *)
(***************************************************************************)
Slots == DOMAIN pc

NoUpload == [filename |-> <<>>, data |-> [magic |-> "none"], private |-> FALSE]

IdleReq ==
    [kind |-> "none", upload |-> NoUpload, private |-> FALSE, hash_id |-> <<>>,
     comment |-> "", validated |-> None, thumbnail |-> None, i |-> 0,
     query_result |-> None, record |-> None, resp |-> "none"]

SmallPng == [magic |-> "Png", decodes |-> TRUE, width |-> 100, height |-> 100, size |-> 1000]

LargeJpeg == [magic |-> "Jpeg", decodes |-> TRUE, width |-> 1600, height |-> 900, size |-> 1000]

BrokenGif == [magic |-> "Gif", decodes |-> FALSE, width |-> 100, height |-> 100, size |-> 1000]

\* the uploads of the lifecycle specification: a private a.png and a public
\* a.jpeg with matching bodies; a JPEG named a.png, a PNG named a and a.txt,
\* a GIF that does not decode
ValidUploads ==
    { [filename |-> <<"a", ".", "p", "n", "g">>, data |-> SmallPng, private |-> TRUE],
      [filename |-> <<"a", ".", "j", "p", "e", "g">>, data |-> LargeJpeg, private |-> FALSE] }

InvalidUploads ==
    { [filename |-> <<"a", ".", "p", "n", "g">>, data |-> LargeJpeg, private |-> FALSE],
      [filename |-> <<"a">>, data |-> SmallPng, private |-> FALSE],
      [filename |-> <<"a", ".", "t", "x", "t">>, data |-> SmallPng, private |-> FALSE],
      [filename |-> <<"a", ".", "g", "i", "f">>, data |-> BrokenGif, private |-> FALSE] }

Uploads == ValidUploads \cup InvalidUploads

Comments == {"c"}

\* the ids a caller may name: those of rows and files, and one fixed id
TargetIds ==
    {media[k].hash_id : k \in DOMAIN media}
        \cup {path[2] : path \in DOMAIN files}
        \cup {choose_multiple(HASH_CHARS, HASH_MIN_LENGTH, 0)}

\* request p is at label and steps next: of the requests that are at the same
\* place with the same locals and the same session contents, the one in the
\* lowest slot steps first (the slots are interchangeable)
At(p, label) ==
    /\ pc[p] = label
    /\ {q \in Slots : q < p /\ pc[q] = label /\ req[q] = req[p]
                                /\ session[q] = session[p]} = {}

\* the handler returned: its locals are dropped, the response stays, and with
\* it the last answer of the store to an INSERT, which an error response
\* carries
Finished(r, resp) ==
    [IdleReq EXCEPT !.kind = r.kind, !.upload = r.upload, !.hash_id = r.hash_id,
                    !.query_result = r.query_result, !.record = r.record, !.resp = resp]

\* the handler moves on, or returns without touching the session
Goto(p, label, r) ==
    /\ pc' = [pc EXCEPT ![p] = label]
    /\ req' = [req EXCEPT ![p] = r]
    /\ session' = session

\* the handler sets its flash message and returns a redirect
Return(p, r, flashes) ==
    /\ pc' = [pc EXCEPT ![p] = "done"]
    /\ req' = [req EXCEPT ![p] = r]
    /\ session' = [session EXCEPT ![p] = swap_flashes(@, flashes).session]

\* ensure_login! found no account: the handler returns the redirect to /signin
\* before it reads its inputs
RedirectToSignin(p, kind) ==
    /\ pc' = [pc EXCEPT ![p] = "done"]
    /\ req' = [req EXCEPT ![p] = Finished([IdleReq EXCEPT !.kind = kind], "signin")]
    /\ session' = [session EXCEPT ![p] = ensure_login(@).session]

\* web/endpoint/media.rs, upload: the session is checked, the request taken,
\* the file validated and the thumbnail derived (upload of api/endpoint.rs
\* runs the same steps on the stores for a caller its middleware let in)
Upload(p, uploads) ==
    /\ At(p, "idle")
    /\ IF ~ensure_login(session[p]).ok
       THEN RedirectToSignin(p, "upload")
       ELSE \E upload \in uploads :
        LET validated == validate_image_file(upload.filename, upload.data)
            r == [IdleReq EXCEPT !.kind = "upload", !.upload = upload,
                                 !.private = upload.private]
        IN IF ~validated.ok
           THEN Return(p, Finished(r, "invalid"),
                       <<Error("Failed to validate image: {}")>>)
           ELSE Goto(p, "reserve",
                     [r EXCEPT !.validated = Some(validated.val),
                               !.thumbnail = create_thumbnail(validated.val.image.width,
                                                              validated.val.image.height)])
    /\ UNCHANGED <<media, files, clock, arg, ret>>

\* reserve_media_record: one turn of the loop, one INSERT, its outcome kept in
\* query_result; the clock is read
\* for the row's timestamp, later than the last timestamp stored (the reading
\* of a failed INSERT is dropped with its row; readings that tie matter only
\* to the order of the listing)
ReserveAttempt(p, seeds, faults) ==
    /\ At(p, "reserve")
    /\ req[p].i < MAX_RETRY
    /\ \E seed \in seeds, fault \in faults, now \in {clock + 1} :
        LET length == HASH_MIN_LENGTH + req[p].i
            hash == choose_multiple(HASH_CHARS, length, seed)
            row == NewRow(hash, req[p].validated.val, req[p].thumbnail.some,
                          req[p].private, now)
            sqlstate == IF fault # SqlOk THEN fault
                        ELSE IF UniqueViolation(media, row) THEN SqlUniqueViolation
                        ELSE SqlOk
        IN IF sqlstate = SqlOk
           THEN /\ media' = Append(media, row)
                /\ Goto(p, IF req[p].thumbnail.some THEN "save_thumbnail" ELSE "save_original",
                        [req[p] EXCEPT !.record = Some(row), !.query_result = Some(sqlstate)])
                /\ clock' = now
           ELSE IF is_conflicting(sqlstate)
           THEN /\ media' = media
                /\ clock' = clock
                /\ IF req[p].i + 1 < MAX_RETRY
                   THEN Goto(p, "reserve", [req[p] EXCEPT !.i = @ + 1,
                                                         !.query_result = Some(sqlstate)])
                   ELSE Goto(p, "done",
                             Finished([req[p] EXCEPT !.query_result = Some(sqlstate)],
                                      "exhausted"))
           ELSE /\ media' = media
                /\ clock' = clock
                /\ Goto(p, "done",
                        Finished([req[p] EXCEPT !.query_result = Some(sqlstate)], "error"))
    /\ UNCHANGED <<files, arg, ret>>

\* upload: the thumbnail is written first, as JPEG
SaveThumbnail(p, outcomes) ==
    /\ At(p, "save_thumbnail")
    /\ \E outcome \in outcomes :
        /\ files' = save_image(files, req[p].thumbnail.val, "Jpeg",
                               ThumbnailPath(req[p].record.val.hash_id), outcome)
        /\ IF outcome = "ok"
           THEN Goto(p, "save_original", req[p])
           ELSE Goto(p, "done", Finished(req[p], "error"))
    /\ UNCHANGED <<media, clock, arg, ret>>

\* upload: the decoded image is written in the format of the upload
SaveOriginal(p, outcomes) ==
    /\ At(p, "save_original")
    /\ \E outcome \in outcomes :
        /\ files' = save_image(files, req[p].validated.val.image, req[p].validated.val.format,
                               OriginalPath(req[p].record.val.hash_id,
                                            req[p].record.val.extension), outcome)
        /\ IF outcome = "ok"
           THEN Return(p, Finished(req[p], "ok"),
                       <<Info("Media has been uploaded successfully! ID is {}")>>)
           ELSE Goto(p, "done", Finished(req[p], "error"))
    /\ UNCHANGED <<media, clock, arg, ret>>

\* web/endpoint/media.rs, update: the session is checked, the request taken
\* and the row looked up
Update(p) ==
    /\ At(p, "idle")
    /\ IF ~ensure_login(session[p]).ok
       THEN RedirectToSignin(p, "update")
       ELSE \E hash_id \in TargetIds, private \in BOOLEAN, comment \in Comments :
        LET media_record == fetch_media(media, hash_id)
            r == [IdleReq EXCEPT !.kind = "update", !.hash_id = hash_id,
                                 !.private = private, !.comment = comment,
                                 !.record = media_record]
        IN IF ~media_record.some
           THEN Return(p, Finished(r, "not_found"), <<Error("Media {} not found")>>)
           ELSE Goto(p, "update_record", r)
    /\ UNCHANGED <<media, files, clock, arg, ret>>

\* update: UPDATE ... RETURNING * with fetch_one, which fails on no row
UpdateRecord(p) ==
    /\ At(p, "update_record")
    /\ LET hash_id == req[p].record.val.hash_id
           table == update_media_record(media, hash_id, req[p].private, req[p].comment)
           new_record == fetch_media(table, hash_id)
       IN /\ media' = table
          /\ IF new_record.some
             THEN Return(p, Finished([req[p] EXCEPT !.record = new_record], "ok"),
                         <<Info("Media information has been updated successfully.")>>)
             ELSE Goto(p, "done", Finished(req[p], "error"))
    /\ UNCHANGED <<files, clock, arg, ret>>

\* web/endpoint/media.rs, delete: the session is checked, the request taken
\* and the row looked up
Delete(p) ==
    /\ At(p, "idle")
    /\ IF ~ensure_login(session[p]).ok
       THEN RedirectToSignin(p, "delete")
       ELSE \E hash_id \in TargetIds :
        LET media_record == fetch_media(media, hash_id)
            r == [IdleReq EXCEPT !.kind = "delete", !.hash_id = hash_id,
                                 !.record = media_record]
        IN IF ~media_record.some
           THEN Return(p, Finished(r, "not_found"), <<Error("Media {} not found")>>)
           ELSE Goto(p, "remove_original", r)
    /\ UNCHANGED <<media, files, clock, arg, ret>>

\* delete: fs::remove_file of the original, which fails on a missing file
RemoveOriginal(p) ==
    /\ At(p, "remove_original")
    /\ LET filename == OriginalPath(req[p].record.val.hash_id, req[p].record.val.extension)
       IN IF filename \in DOMAIN files
          THEN /\ files' = RemoveFile(files, filename)
               /\ Goto(p, IF req[p].record.val.has_thumbnail
                          THEN "remove_thumbnail" ELSE "remove_record", req[p])
          ELSE /\ files' = files
               /\ Goto(p, "done", Finished(req[p], "error"))
    /\ UNCHANGED <<media, clock, arg, ret>>

\* delete: fs::remove_file of the thumbnail
RemoveThumbnail(p) ==
    /\ At(p, "remove_thumbnail")
    /\ LET thumb_filename == ThumbnailPath(req[p].record.val.hash_id)
       IN IF thumb_filename \in DOMAIN files
          THEN /\ files' = RemoveFile(files, thumb_filename)
               /\ Goto(p, "remove_record", req[p])
          ELSE /\ files' = files
               /\ Goto(p, "done", Finished(req[p], "error"))
    /\ UNCHANGED <<media, clock, arg, ret>>

\* delete: the row is removed, whether or not one is left to remove
RemoveRecord(p) ==
    /\ At(p, "remove_record")
    /\ media' = remove_media_record(media, req[p].record.val.hash_id)
    /\ Return(p, Finished(req[p], "ok"), <<Info("Media has been deleted successfully.")>>)
    /\ UNCHANGED <<files, clock, arg, ret>>

\* endpoint/auth.rs, signout: the session is checked, the account removed
Signout(p) ==
    /\ At(p, "idle")
    /\ IF ~ensure_login(session[p]).ok
       THEN RedirectToSignin(p, "signout")
       ELSE /\ pc' = [pc EXCEPT ![p] = "done"]
            /\ req' = [req EXCEPT ![p] = Finished([IdleReq EXCEPT !.kind = "signout"], "ok")]
            /\ session' = [session EXCEPT ![p] =
                    swap_flashes(delete_account(@), <<Info("Signed out successfully.")>>).session]
    /\ UNCHANGED <<media, files, clock, arg, ret>>

DbFaults == {SqlOk, SqlConnectionFailure}

\* a record left by an earlier upload of a.jpeg, with its two files
StoredRow ==
    NewRow(choose_multiple(HASH_CHARS, HASH_MIN_LENGTH, 0),
           [image |-> [width |-> 1600, height |-> 900], format |-> "Jpeg", filesize |-> 1000],
           TRUE, FALSE, 0)

StoredFiles ==
    save_image(save_image(<<>>, [width |-> 320, height |-> 180], "Jpeg",
                          ThumbnailPath(StoredRow.hash_id), "ok"),
               [width |-> 1600, height |-> 900], "Jpeg",
               OriginalPath(StoredRow.hash_id, StoredRow.extension), "ok")

\* the stores are empty, or hold what an earlier run of the server left
Init ==
    /\ \/ media = <<>> /\ files = <<>>
       \/ media = <<StoredRow>> /\ files = StoredFiles
    /\ clock = 0
    /\ pc = [p \in 1..NumReqs |-> "idle"]
    /\ req = [p \in 1..NumReqs |-> IdleReq]
    /\ session = [p \in 1..NumReqs |-> SignedIn]
    /\ arg = None
    /\ ret = None

Next ==
    \/ \E p \in Slots : Upload(p, Uploads)
    \/ \E p \in Slots : ReserveAttempt(p, Seeds, DbFaults)
    \/ \E p \in Slots : SaveThumbnail(p, SaveOutcomes)
    \/ \E p \in Slots : SaveOriginal(p, SaveOutcomes)
    \/ \E p \in Slots : Update(p)
    \/ \E p \in Slots : UpdateRecord(p)
    \/ \E p \in Slots : Delete(p)
    \/ \E p \in Slots : RemoveOriginal(p)
    \/ \E p \in Slots : RemoveThumbnail(p)
    \/ \E p \in Slots : RemoveRecord(p)

Spec == Init /\ [][Next]_vars

(***************************************************************************)
(* The handlers behind ensure_login!, for requests that come with or       *)
(* without the account in their session and with flashes not yet shown.    *)
(***************************************************************************)
\* flashes an earlier request of the session left: none, that of signout, that
\* of an earlier redirect to /signin, that of a page of a missing record
PendingFlashes ==
    { <<>>,
      <<Info("Signed out successfully.")>>,
      <<Info("Please sign in")>>,
      <<Error("Media {} not found")>> }

\* the session of the owner, and sessions without an account
Sessions == {SignedIn} \cup [account : {None}, flashes : PendingFlashes]

InitAuth ==
    /\ \/ media = <<>> /\ files = <<>>
       \/ media = <<StoredRow>> /\ files = StoredFiles
    /\ clock = 0
    /\ pc = [p \in 1..NumReqs |-> "idle"]
    /\ req = [p \in 1..NumReqs |-> IdleReq]
    /\ session \in [1..NumReqs -> Sessions]
    /\ arg = None
    /\ ret = None

NextAuth ==
    \/ \E p \in Slots : Upload(p, ValidUploads)
    \/ \E p \in Slots : ReserveAttempt(p, {0}, {SqlOk})
    \/ \E p \in Slots : SaveThumbnail(p, {"ok"})
    \/ \E p \in Slots : SaveOriginal(p, {"ok"})
    \/ \E p \in Slots : Update(p)
    \/ \E p \in Slots : UpdateRecord(p)
    \/ \E p \in Slots : Delete(p)
    \/ \E p \in Slots : RemoveOriginal(p)
    \/ \E p \in Slots : RemoveThumbnail(p)
    \/ \E p \in Slots : RemoveRecord(p)
    \/ \E p \in Slots : Signout(p)

SpecAuth == InitAuth /\ [][NextAuth]_vars

(***************************************************************************)
(* Create requests alone, against an empty store, with no failure of the   *)
(* store or of the file system other than a conflict of ids; the generator *)
(* gives every request the same draws, so that ids of one length collide.  *)
(***************************************************************************)
CollidingSeeds == {0}

\* every creator uploads the a.jpeg, which gets a thumbnail
CreatorUploads == {u \in ValidUploads : u.data = LargeJpeg}

InitCreate ==
    /\ media = <<>>
    /\ files = <<>>
    /\ clock = 0
    /\ \E n \in 1..NumCreators :
        /\ pc = [p \in 1..n |-> "idle"]
        /\ req = [p \in 1..n |-> IdleReq]
        /\ session = [p \in 1..n |-> SignedIn]
    /\ arg = None
    /\ ret = None

NextCreate ==
    \/ \E p \in Slots : Upload(p, CreatorUploads)
    \/ \E p \in Slots : ReserveAttempt(p, CollidingSeeds, {SqlOk})
    \/ \E p \in Slots : SaveThumbnail(p, {"ok"})
    \/ \E p \in Slots : SaveOriginal(p, {"ok"})

SpecCreate == InitCreate /\ [][NextCreate]_vars

(***************************************************************************)
(* Uploads alone, against a store that holds ids the generator draws       *)
(* again, with every failure of the store and of the file system the       *)
(* model knows.                                                            *)
(***************************************************************************)
\* uploads of the upload-only specification
NumUploads == 1

\* SQLSTATE 23514, check_violation
SqlCheckViolation == <<"23", "514">>

AllocFaults == {SqlOk, SqlConnectionFailure, SqlCheckViolation}

\* the k-th record an earlier upload of a small a.png left, when the generator
\* drew as it does now and k - 1 ids were taken
TakenRow(k) ==
    NewRow(choose_multiple(HASH_CHARS, HASH_MIN_LENGTH + k - 1, 0),
           [image |-> [width |-> 100, height |-> 100], format |-> "Png", filesize |-> 1000],
           FALSE, FALSE, k)

RECURSIVE TakenFiles(_)
TakenFiles(n) ==
    IF n = 0 THEN <<>>
    ELSE save_image(TakenFiles(n - 1), [width |-> 100, height |-> 100], "Png",
                    OriginalPath(TakenRow(n).hash_id, TakenRow(n).extension), "ok")

AllocUploads ==
    ValidUploads \cup
        {[filename |-> <<"a", ".", "t", "x", "t">>, data |-> SmallPng, private |-> FALSE]}

InitAlloc ==
    /\ \E n \in 0..MAX_RETRY :
        /\ media = [k \in 1..n |-> TakenRow(k)]
        /\ files = TakenFiles(n)
        /\ clock = n
    /\ pc = [p \in 1..NumUploads |-> "idle"]
    /\ req = [p \in 1..NumUploads |-> IdleReq]
    /\ session = [p \in 1..NumUploads |-> SignedIn]
    /\ arg = None
    /\ ret = None

NextAlloc ==
    \/ \E p \in Slots : Upload(p, AllocUploads)
    \/ \E p \in Slots : ReserveAttempt(p, CollidingSeeds, AllocFaults)
    \/ \E p \in Slots : SaveThumbnail(p, SaveOutcomes)
    \/ \E p \in Slots : SaveOriginal(p, SaveOutcomes)

SpecAlloc == InitAlloc /\ [][NextAlloc]_vars

(***************************************************************************)
(* Deletes racing an upload: the store holds the record of an a.jpeg, with *)
(* or without thumbnail, and the generator draws the id of that record     *)
(* again for an upload of an a.jpeg; no write of a file fails, a removal   *)
(* fails when its file is missing.                                         *)
(***************************************************************************)
\* requests of the race
NumRacers == 3

\* a record left by an earlier upload of a small a.jpeg, with its one file
PlainRow ==
    NewRow(choose_multiple(HASH_CHARS, HASH_MIN_LENGTH, 0),
           [image |-> [width |-> 100, height |-> 100], format |-> "Jpeg", filesize |-> 1000],
           FALSE, FALSE, 0)

PlainFiles ==
    save_image(<<>>, [width |-> 100, height |-> 100], "Jpeg",
               OriginalPath(PlainRow.hash_id, PlainRow.extension), "ok")

\* a.jpeg, large and small: with and without thumbnail
RaceUploads ==
    { [filename |-> <<"a", ".", "j", "p", "e", "g">>, data |-> d, private |-> FALSE] :
        d \in {LargeJpeg, [LargeJpeg EXCEPT !.width = 100, !.height = 100]} }

InitRace ==
    /\ \/ media = <<PlainRow>> /\ files = PlainFiles
       \/ media = <<StoredRow>> /\ files = StoredFiles
    /\ clock = 0
    /\ pc = [p \in 1..NumRacers |-> "idle"]
    /\ req = [p \in 1..NumRacers |-> IdleReq]
    /\ session = [p \in 1..NumRacers |-> SignedIn]
    /\ arg = None
    /\ ret = None

NextRace ==
    \/ \E p \in Slots : Upload(p, RaceUploads)
    \/ \E p \in Slots : ReserveAttempt(p, CollidingSeeds, {SqlOk})
    \/ \E p \in Slots : SaveThumbnail(p, {"ok"})
    \/ \E p \in Slots : SaveOriginal(p, {"ok"})
    \/ \E p \in Slots : Delete(p)
    \/ \E p \in Slots : RemoveOriginal(p)
    \/ \E p \in Slots : RemoveThumbnail(p)
    \/ \E p \in Slots : RemoveRecord(p)

SpecRace == InitRace /\ [][NextRace]_vars

(***************************************************************************)
(* Uploads alone, against an empty store, of images of every accepted      *)
(* format, at, around and beyond the thumbnail box, two of them with the    *)
(* same picture in different bytes.                                        *)
(***************************************************************************)
\* a PNG file of w x h pixels in size bytes
PngOf(w, h, size) ==
    [magic |-> "Png", decodes |-> TRUE, width |-> w, height |-> h, size |-> size]

JpegOf(w, h, size) ==
    [magic |-> "Jpeg", decodes |-> TRUE, width |-> w, height |-> h, size |-> size]

GifOf(w, h, size) ==
    [magic |-> "Gif", decodes |-> TRUE, width |-> w, height |-> h, size |-> size]

\* SmallPng, and the same picture saved with a text chunk; a PNG one row
\* higher than the box; a JPEG that fills the box and LargeJpeg; a GIF one
\* column wider than the box
FormatUploads ==
    { [filename |-> <<"a", ".", "p", "n", "g">>, data |-> d, private |-> FALSE] :
        d \in {SmallPng, PngOf(100, 100, 1200),
                PngOf(THUMBNAIL_WIDTH, THUMBNAIL_HEIGHT + 1, 1000)} }
    \cup
    { [filename |-> <<"a", ".", "j", "p", "e", "g">>, data |-> d, private |-> FALSE] :
        d \in {JpegOf(THUMBNAIL_WIDTH, THUMBNAIL_HEIGHT, 1000), LargeJpeg} }
    \cup
    { [filename |-> <<"a", ".", "g", "i", "f">>,
       data |-> GifOf(THUMBNAIL_WIDTH + 1, THUMBNAIL_HEIGHT, 1000), private |-> FALSE] }

InitFormats ==
    /\ media = <<>>
    /\ files = <<>>
    /\ clock = 0
    /\ pc = [p \in 1..NumReqs |-> "idle"]
    /\ req = [p \in 1..NumReqs |-> IdleReq]
    /\ session = [p \in 1..NumReqs |-> SignedIn]
    /\ arg = None
    /\ ret = None

NextFormats ==
    \/ \E p \in Slots : Upload(p, FormatUploads)
    \/ \E p \in Slots : ReserveAttempt(p, CollidingSeeds, {SqlOk})
    \/ \E p \in Slots : SaveThumbnail(p, SaveOutcomes)
    \/ \E p \in Slots : SaveOriginal(p, SaveOutcomes)

SpecFormats == InitFormats /\ [][NextFormats]_vars

(***************************************************************************)
(* The pure functions on their own: the input is drawn in the initial      *)
(* state and one step applies the function.                                *)
(***************************************************************************)
Pending == [done |-> FALSE]

Done(v) == [done |-> TRUE, out |-> v]

NoStores ==
    /\ media = <<>>
    /\ files = <<>>
    /\ clock = 0
    /\ pc = <<>>
    /\ req = <<>>
    /\ session = <<>>

\* file names of uploads: a.png a.jpg a.jpeg a.gif a.webp a.txt a.qq a .png a. a.gif.png
Filenames ==
    { <<"a", ".", "p", "n", "g">>,
      <<"a", ".", "j", "p", "g">>,
      <<"a", ".", "j", "p", "e", "g">>,
      <<"a", ".", "g", "i", "f">>,
      <<"a", ".", "w", "e", "b", "p">>,
      <<"a", ".", "t", "x", "t">>,
      <<"a", ".", "q", "q">>,
      <<"a">>,
      <<".", "p", "n", "g">>,
      <<"a", ".">>,
      <<"a", ".", "g", "i", "f", ".", "p", "n", "g">> }

\* upload bodies: the format the first bytes announce, whether the body
\* decodes, and the dimensions of the image it holds
Datas ==
    { [magic |-> m, decodes |-> d, width |-> wh[1], height |-> wh[2], size |-> 1000] :
        m \in {"Png", "Jpeg", "Gif", "WebP", "none"},
        d \in BOOLEAN,
        wh \in {<<100, 100>>, <<1600, 900>>} }

InitValidate ==
    /\ NoStores
    /\ arg \in [filename : Filenames, data : Datas]
    /\ ret = Pending

ValidateStep ==
    /\ ~ret.done
    /\ ret' = Done(validate_image_file(arg.filename, arg.data))
    /\ UNCHANGED <<media, files, clock, pc, req, session, arg>>

NextValidate == ValidateStep

SpecValidate == InitValidate /\ [][NextValidate]_vars

\* image dimensions around the thumbnail box and beyond it
DimValues == {1, 100, 179, 180, 181, 200, 319, 320, 321, 400, 800, 900, 1000, 1600, 2000}

InitThumb ==
    /\ NoStores
    /\ arg \in [width : DimValues, height : DimValues]
    /\ ret = Pending

ThumbnailStep ==
    /\ ~ret.done
    /\ ret' = Done(create_thumbnail(arg.width, arg.height))
    /\ UNCHANGED <<media, files, clock, pc, req, session, arg>>

NextThumb == ThumbnailStep

SpecThumb == InitThumb /\ [][NextThumb]_vars

(***************************************************************************)
(* fetch_media_list on its own: the table, the cursor and the limit are    *)
(* drawn in the initial state; each step fetches one page, with the cursor *)
(* of the first page as drawn and that of a later page the oldest          *)
(* timestamp of the page before, until a page comes back empty.            *)
(***************************************************************************)
\* the k-th row of a listed table
ListRow(k, uploaded, private) ==
    NewRow(choose_multiple(HASH_CHARS, HASH_MIN_LENGTH, k - 1),
           [image |-> [width |-> 100, height |-> 100], format |-> "Png", filesize |-> 1000],
           FALSE, private, uploaded)

InitList ==
    /\ \E n \in 0..MaxRows : \E f \in [1..n -> (1..MaxTime) \X BOOLEAN] :
            media = [k \in 1..n |-> ListRow(k, f[k][1], f[k][2])]
    /\ files = <<>>
    /\ clock = 0
    /\ pc = <<>>
    /\ req = <<>>
    /\ session = <<>>
    /\ arg \in [latest : {None} \cup {Some(t) : t \in 1..(MaxTime + 1)}, limit : 0..MaxLimit]
    /\ ret = [pages |-> <<>>, cursor |-> arg.latest, done |-> FALSE]

PageStep ==
    /\ ~ret.done
    /\ \E rows \in fetch_media_list(media, ret.cursor, arg.limit) :
        ret' = [pages |-> Append(ret.pages, [latest |-> ret.cursor, rows |-> rows]),
                cursor |-> IF rows = <<>> THEN ret.cursor
                           ELSE Some(rows[Len(rows)].uploaded),
                done |-> rows = <<>>]
    /\ UNCHANGED <<media, files, clock, pc, req, session, arg>>

NextList == PageStep

SpecList == InitList /\ [][NextList]_vars

(***************************************************************************)
(* The middlewares in front of the web handlers (main.rs, run_server):     *)
(* FormPreparseMiddleware, deform_http_method, CsrfProtectionMiddleware.   *)
(***************************************************************************)
ALLOWED_METHODS == {"GET", "HEAD", "OPTIONS"}

TOKEN_EXPIARY == 86400

Methods == ALLOWED_METHODS \cup {"POST", "PATCH", "DELETE"}

FORM == "application/x-www-form-urlencoded"

MULTIPART_FORM == "multipart/form-data"

\* a value of a form field, with what BASE64.decode makes of it: a text that
\* is not base64, or the base64 text of len bytes, which from the 13th on are
\* the text plain sealed under key
Text(text) == [text |-> text, decoded |-> None]

Base64Of(len, key, plain) ==
    [text |-> "", decoded |-> Some([len |-> len, key |-> key, plain |-> plain])]

\* the key of state.cipher, and what stands for it in bytes no cipher of the
\* server has sealed
ServerKey == "secret_key"

NoKey == "none"

NONCE_LENGTH == 12

DigitChars == <<"0", "1", "2", "3", "4", "5", "6", "7", "8", "9">>

RECURSIVE Digits(_)
Digits(n) ==
    IF n < 10 THEN <<DigitChars[n + 1]>>
    ELSE Append(Digits(n \div 10), DigitChars[(n % 10) + 1])

\* i64::to_string
to_string(n) == IF n < 0 THEN <<"-">> \o Digits(0 - n) ELSE Digits(n)

IsDigit(c) == \E d \in 1..10 : DigitChars[d] = c

RECURSIVE DigitsValue(_)
DigitsValue(word) ==
    IF word = <<>> THEN 0
    ELSE 10 * DigitsValue(SubSeq(word, 1, Len(word) - 1))
            + (CHOOSE d \in 0..9 : DigitChars[d + 1] = word[Len(word)])

\* every word parses as zero
parse_as_zero(word) == Some(0)

\* str::parse::<i64>: an optional sign and one digit or more (texts of the
\* model stay far below the width of i64)
parse(word) ==
    LET signed == word # <<>> /\ word[1] \in {"-", "+"}
        digits == IF signed THEN Tail(word) ELSE word
    IN IF digits = <<>> \/ \E k \in DOMAIN digits : ~IsDigit(digits[k]) THEN None
       ELSE Some(IF signed /\ word[1] = "-" THEN 0 - DigitsValue(digits)
                 ELSE DigitsValue(digits))

\* str::split_whitespace: the words of the text, in order
RECURSIVE SplitWhitespace(_, _)
SplitWhitespace(text, word) ==
    IF text = <<>> THEN (IF word = <<>> THEN <<>> ELSE <<word>>)
    ELSE IF Head(text) = " "
         THEN (IF word = <<>> THEN <<>> ELSE <<word>>) \o SplitWhitespace(Tail(text), <<>>)
         ELSE SplitWhitespace(Tail(text), Append(word, Head(text)))

split_whitespace(text) == SplitWhitespace(text, <<>>)

\* generate_csrf_token: "{sid} {now}" sealed under the key of the server
\* behind a fresh nonce, in base64; the id of a session is one word
generate_csrf_token(sid, now) ==
    LET plain_text == <<sid, " ">> \o to_string(now)
    IN Base64Of(NONCE_LENGTH + Len(plain_text), ServerKey, plain_text)

\* verify_csrf_token: the token decodes, is no shorter than a nonce, decrypts,
\* has two words, names the session, and is not older than TOKEN_EXPIARY
\* seconds, a time that does not parse counting as 0
verify_csrf_token(sid, now, token) ==
    /\ token.decoded.some
    /\ token.decoded.val.len >= NONCE_LENGTH
    /\ token.decoded.val.key = ServerKey
    /\ LET params == split_whitespace(token.decoded.val.plain)
       IN /\ Len(params) = 2
          /\ <<sid>> = params[1]
          /\ LET token_time == IF parse(params[2]).some THEN parse(params[2]).val ELSE 0
             IN now - token_time <= TOKEN_EXPIARY

\* str::parse::<Method>
ParseMethod(value) ==
    IF ~value.decoded.some /\ value.text \in Methods THEN Some(value.text) ELSE None

IsForm(content_type) ==
    content_type.some /\ content_type.val \in {FORM, MULTIPART_FORM}

\* FormPreparseMiddleware: the body of a form request is parsed and cached,
\* a body that does not parse ends the request with the error
FormPreparseMiddleware(request) ==
    IF ~IsForm(request.content_type) THEN Ok(request)
    ELSE IF ~request.parses THEN Err("parse")
    ELSE Ok([request EXCEPT !.cache = Some([_method |-> request._method,
                                            _token |-> request._token])])

\* deform_http_method: a POST with a form body takes the method its field
\* _method names
deform_http_method(request) ==
    IF request.method # "POST" THEN request
    ELSE IF ~IsForm(request.content_type) THEN request
    ELSE LET field == request.cache.val._method
             method == IF field.some THEN ParseMethod(field.val) ELSE None
         IN IF method.some THEN [request EXCEPT !.method = method.val] ELSE request

\* CsrfProtectionMiddleware: "next" when the handler is to run, or the status
\* of the response the middleware gives itself
CsrfProtectionMiddleware(request, sid, now) ==
    IF request.method \in ALLOWED_METHODS THEN "next"
    ELSE IF ~IsForm(request.content_type) THEN "next"
    ELSE LET token == request.cache.val._method
         IN IF ~token.some THEN "BadRequest"
            ELSE IF verify_csrf_token(sid, now, token.val) THEN "next"
            ELSE "BadRequest"

\* the session of the requests, another session, and the time of the requests
Sid == "s1"

OtherSid == "s2"

Now == TOKEN_EXPIARY + 1

\* field values: names of methods, a text that is neither a method nor a
\* token, a token of the session one second within its life and one second
\* beyond it, a fresh token of another session
FieldValues ==
    { Text("DELETE"), Text("PATCH"), Text("GET"), Text("x"),
      generate_csrf_token(Sid, 1), generate_csrf_token(Sid, 0),
      generate_csrf_token(OtherSid, Now) }

ContentTypes == {None, Some(FORM), Some(MULTIPART_FORM), Some("application/json")}

Requests ==
    [method : Methods, content_type : ContentTypes, parses : BOOLEAN,
     _method : {None} \cup {Some(v) : v \in FieldValues},
     _token : {None} \cup {Some(v) : v \in FieldValues},
     cache : {None}]

InitCsrf ==
    /\ NoStores
    /\ arg \in [request : Requests, sid : {Sid}, now : {Now}]
    /\ ret = [stage |-> "preparse", request |-> arg.request, status |-> "none", ran |-> FALSE]

\* app.with(FormPreparseMiddleware)
Preparse ==
    /\ ret.stage = "preparse"
    /\ LET parsed == FormPreparseMiddleware(ret.request)
       IN ret' = IF parsed.ok
                 THEN [ret EXCEPT !.stage = "deform", !.request = parsed.val]
                 ELSE [ret EXCEPT !.stage = "done", !.status = "InternalServerError"]
    /\ UNCHANGED <<media, files, clock, pc, req, session, arg>>

\* app.with(Before(deform_http_method))
Deform ==
    /\ ret.stage = "deform"
    /\ ret' = [ret EXCEPT !.stage = "csrf", !.request = deform_http_method(ret.request)]
    /\ UNCHANGED <<media, files, clock, pc, req, session, arg>>

\* web_routes.with(CsrfProtectionMiddleware::new(..))
Csrf ==
    /\ ret.stage = "csrf"
    /\ LET outcome == CsrfProtectionMiddleware(ret.request, arg.sid, arg.now)
       IN ret' = IF outcome = "next"
                 THEN [ret EXCEPT !.stage = "handler"]
                 ELSE [ret EXCEPT !.stage = "done", !.status = outcome]
    /\ UNCHANGED <<media, files, clock, pc, req, session, arg>>

\* the handler of the route runs (next.run)
Handler ==
    /\ ret.stage = "handler"
    /\ ret' = [ret EXCEPT !.stage = "done", !.status = "handled", !.ran = TRUE]
    /\ UNCHANGED <<media, files, clock, pc, req, session, arg>>

NextCsrf == Preparse \/ Deform \/ Csrf \/ Handler

SpecCsrf == InitCsrf /\ [][NextCsrf]_vars

(***************************************************************************)
(* generate_csrf_token and verify_csrf_token on their own: a token is made *)
(* for a session at a time, damaged or not, and verified for a session at  *)
(* a time.                                                                 *)
(***************************************************************************)
\* times of making and of verifying, in seconds: a second before the epoch,
\* the epoch, and times that lie TOKEN_EXPIARY apart, or a second more or less
Times ==
    {0 - 1, 0, 1, 9, 10, TOKEN_EXPIARY - 1, TOKEN_EXPIARY, TOKEN_EXPIARY + 1,
     TOKEN_EXPIARY + 10, 2 * TOKEN_EXPIARY + 1}

\* what becomes of the token on its way: nothing; it is cut to 11 bytes, or to
\* its nonce; a byte of its cipher text is changed; it is not base64; and, made
\* with the key of the server, texts of one word and of three
Damages == {"none", "cut short", "nonce only", "changed", "not base64", "one word", "three words"}

Damaged(token, damage) ==
    LET bytes == token.decoded.val
    IN CASE damage = "none" -> token
         [] damage = "cut short" -> Base64Of(NONCE_LENGTH - 1, NoKey, <<>>)
         [] damage = "nonce only" -> Base64Of(NONCE_LENGTH, NoKey, <<>>)
         [] damage = "changed" -> Base64Of(bytes.len, NoKey, bytes.plain)
         [] damage = "not base64" -> Text("x")
         [] damage = "one word" ->
                Base64Of(NONCE_LENGTH + 1, ServerKey, <<bytes.plain[1]>>)
         [] damage = "three words" ->
                Base64Of(bytes.len + 2, ServerKey, bytes.plain \o <<" ", "x">>)

InitToken ==
    /\ NoStores
    /\ arg \in [session : {Sid, OtherSid}, time : Times,
                verifier : {Sid, OtherSid}, now : Times, damage : Damages]
    /\ ret = Pending

\* the token is made and sent in; verify_csrf_token answers Ok or Err
TokenStep ==
    /\ ~ret.done
    /\ LET token == Damaged(generate_csrf_token(arg.session, arg.time), arg.damage)
       IN ret' = Done([token |-> token,
                       ok |-> verify_csrf_token(arg.verifier, arg.now, token)])
    /\ UNCHANGED <<media, files, clock, pc, req, session, arg>>

NextToken == TokenStep

SpecToken == InitToken /\ [][NextToken]_vars

(***************************************************************************)
(* The API routes (main.rs, run_server): ApiAuthorizationMiddleware in     *)
(* front of show and upload of api/endpoint.rs.                            *)
(***************************************************************************)
\* longest Authorization header, in symbols
MaxHeaderLen == 3

\* the symbols of a header: a blank, and texts without blanks; texts that
\* follow each other without a blank make one word
Blank == " "

\* the token of the configuration, and a text that is not it
ApiToken == "token"

HeaderSymbols == {Blank, "Bearer", "Basic", ApiToken, "other"}

RECURSIVE SeqsUpTo(_, _)
SeqsUpTo(symbols, n) ==
    IF n = 0 THEN {<<>>}
    ELSE LET shorter == SeqsUpTo(symbols, n - 1)
         IN shorter \cup {Append(s, c) : s \in shorter, c \in symbols}

Headers == {None} \cup {Some(h) : h \in SeqsUpTo(HeaderSymbols, MaxHeaderLen)}

\* str::split_ascii_whitespace: the words of the text, in order
RECURSIVE SplitWords(_, _)
SplitWords(text, word) ==
    IF text = <<>> THEN (IF word = <<>> THEN <<>> ELSE <<word>>)
    ELSE IF Head(text) = Blank
         THEN (IF word = <<>> THEN <<>> ELSE <<word>>) \o SplitWords(Tail(text), <<>>)
         ELSE SplitWords(Tail(text), Append(word, Head(text)))

split_ascii_whitespace(text) == SplitWords(text, <<>>)

\* the token of the header is not compared
TokenMatchesAny(t, token) == TRUE

\* t == self.token
TokenMatches(t, token) == t = <<token>>

\* ApiAuthorizationMiddleware: "next" when the handler is to run, or the
\* status of the response the middleware gives itself
ApiAuthorizationMiddleware(header, token) ==
    IF ~header.some THEN "Forbidden"
    ELSE LET header_values == split_ascii_whitespace(header.val)
             auth_type == IF Len(header_values) >= 1 THEN Some(header_values[1]) ELSE None
             t == IF Len(header_values) >= 2 THEN Some(header_values[2]) ELSE None
         IN IF auth_type = Some(<<"Bearer">>) /\ t.some /\ TokenMatches(t.val, token)
            THEN "next"
            ELSE "Forbidden"

\* an API request carries no session
NoSession == [account |-> None, flashes |-> <<>>]

\* api_routes.with(ApiAuthorizationMiddleware::new(..)): the request of slot p
\* is let through to the handler of its route, or answered 403
Authorize(p) ==
    /\ At(p, "arrived")
    /\ IF ApiAuthorizationMiddleware(arg[p].header, ApiToken) = "next"
       THEN Goto(p, arg[p].route, req[p])
       ELSE Goto(p, "done", Finished([IdleReq EXCEPT !.kind = arg[p].route], "Forbidden"))
    /\ UNCHANGED <<media, files, clock, arg, ret>>

\* api/endpoint.rs, show: the row is looked up
ApiShow(p) ==
    /\ At(p, "api_show")
    /\ \E hash_id \in TargetIds :
        LET media_record == fetch_media(media, hash_id)
            r == [IdleReq EXCEPT !.kind = "api_show", !.hash_id = hash_id,
                                 !.record = media_record]
        IN Goto(p, "done", Finished(r, IF media_record.some THEN "ok" ELSE "not_found"))
    /\ UNCHANGED <<media, files, clock, arg, ret>>

\* api/endpoint.rs, upload: the request is taken, the file validated and the
\* thumbnail derived
ApiUpload(p, uploads) ==
    /\ At(p, "api_upload")
    /\ \E upload \in uploads :
        LET validated == validate_image_file(upload.filename, upload.data)
            r == [IdleReq EXCEPT !.kind = "api_upload", !.upload = upload,
                                 !.private = upload.private]
        IN IF ~validated.ok
           THEN Goto(p, "done", Finished(r, "invalid"))
           ELSE Goto(p, "reserve",
                     [r EXCEPT !.validated = Some(validated.val),
                               !.thumbnail = create_thumbnail(validated.val.image.width,
                                                              validated.val.image.height)])
    /\ UNCHANGED <<media, files, clock, arg, ret>>

\* api/endpoint.rs, upload: the decoded image is written in the format of the
\* upload, and the record is returned
ApiSaveOriginal(p, outcomes) ==
    /\ At(p, "save_original")
    /\ \E outcome \in outcomes :
        /\ files' = save_image(files, req[p].validated.val.image, req[p].validated.val.format,
                               OriginalPath(req[p].record.val.hash_id,
                                            req[p].record.val.extension), outcome)
        /\ Goto(p, "done", Finished(req[p], IF outcome = "ok" THEN "ok" ELSE "error"))
    /\ UNCHANGED <<media, clock, arg, ret>>

ApiUploads ==
    ValidUploads \cup
        {[filename |-> <<"a", ".", "t", "x", "t">>, data |-> SmallPng, private |-> FALSE]}

InitApi ==
    /\ \/ media = <<>> /\ files = <<>>
       \/ media = <<StoredRow>> /\ files = StoredFiles
    /\ clock = 0
    /\ pc = <<"arrived">>
    /\ req = <<IdleReq>>
    /\ session = <<NoSession>>
    /\ arg \in [{1} -> [header : Headers, route : {"api_show", "api_upload"}]]
    /\ ret = None

NextApi ==
    \/ \E p \in Slots : Authorize(p)
    \/ \E p \in Slots : ApiShow(p)
    \/ \E p \in Slots : ApiUpload(p, ApiUploads)
    \/ \E p \in Slots : ReserveAttempt(p, {0}, DbFaults)
    \/ \E p \in Slots : SaveThumbnail(p, SaveOutcomes)
    \/ \E p \in Slots : ApiSaveOriginal(p, SaveOutcomes)

SpecApi == InitApi /\ [][NextApi]_vars

(***************************************************************************)
(* middleware.rs, GracefulShutdownMiddleware, and the end of run_server    *)
(* (main.rs): requests pass through handle while the task of the signal    *)
(* calls terminate. `ret` holds what the tasks share: the two atomics, the *)
(* Option in the RwLock, the lock itself and how the process ended; `arg`  *)
(* is the task of the signal; req[p] holds the locals of request p.        *)
(***************************************************************************)
\* GracefulShutdownMiddleware::new(): the box of the middleware counts as one
NewShutdown ==
    [terminating |-> FALSE, in_process |-> 1, shutdown_box |-> TRUE,
     readers |-> 0, writer |-> FALSE, exited |-> "no"]

NewRequest == [previous_count |-> 0, ran |-> FALSE, status |-> "none"]

\* the writer does not wait for the readers
WriteLockIgnoresReaders(lock) == ~lock.writer

\* RwLock::write().await returns: no reader and no writer holds the lock
WriteLockFree(lock) == lock.readers = 0 /\ ~lock.writer

\* RwLock::read().await returns: no writer holds the lock
ReadLockFree(lock) == ~lock.writer

Running == ret.exited = "no"

\* reserve: the read lock is taken and the Option matched; on None the
\* request fails and its handler is not run
Reserve(p) ==
    /\ Running
    /\ At(p, "arrived")
    /\ ReadLockFree(ret)
    /\ IF ret.shutdown_box
       THEN /\ ret' = [ret EXCEPT !.readers = @ + 1]
            /\ Goto(p, "reserve", req[p])
       ELSE /\ ret' = ret
            /\ Goto(p, "done", [req[p] EXCEPT !.status = "Already started to terminate"])
    /\ UNCHANGED <<media, files, clock, arg>>

\* reserve: in_process.fetch_add(1) on the clone, and the read lock is
\* released on return
ReserveFetchAdd(p) ==
    /\ Running
    /\ At(p, "reserve")
    /\ ret' = [ret EXCEPT !.in_process = @ + 1, !.readers = @ - 1]
    /\ Goto(p, "next_run", req[p])
    /\ UNCHANGED <<media, files, clock, arg>>

\* handle: next.run(request).await
NextRun(p) ==
    /\ Running
    /\ At(p, "next_run")
    /\ Goto(p, "drop", [req[p] EXCEPT !.ran = TRUE, !.status = "response"])
    /\ UNCHANGED <<media, files, clock, arg, ret>>

\* GracefulShutdownBox::drop of _reserved: in_process.fetch_sub(1)
DropFetchSub(p) ==
    /\ Running
    /\ At(p, "drop")
    /\ ret' = [ret EXCEPT !.in_process = @ - 1]
    /\ Goto(p, "drop_load", [req[p] EXCEPT !.previous_count = ret.in_process])
    /\ UNCHANGED <<media, files, clock, arg>>

\* GracefulShutdownBox::drop of _reserved: terminating.load and exit(0)
DropLoad(p) ==
    /\ Running
    /\ At(p, "drop_load")
    /\ LET should_exit == ret.terminating
       IN ret' = [ret EXCEPT !.exited =
                    IF req[p].previous_count = 1 /\ should_exit THEN "exit in handle" ELSE @]
    /\ Goto(p, "done", req[p])
    /\ UNCHANGED <<media, files, clock, arg>>

\* run_server: the signal arrives and shutdown_future calls terminate
CtrlC ==
    /\ Running
    /\ arg.pc = "signal"
    /\ arg' = [arg EXCEPT !.pc = "write"]
    /\ UNCHANGED <<media, files, clock, pc, req, session, ret>>

\* terminate: the write lock is taken and, the Option being Some,
\* terminating is stored
TerminateStore ==
    /\ Running
    /\ arg.pc = "write"
    /\ WriteLockFree(ret)
    /\ ret' = [ret EXCEPT !.writer = TRUE, !.terminating = ret.shutdown_box \/ @]
    /\ arg' = [arg EXCEPT !.pc = IF ret.shutdown_box THEN "take" ELSE "unlock"]
    /\ UNCHANGED <<media, files, clock, pc, req, session>>

\* terminate: locked.take() and the drop of the box taken, up to its fetch_sub
TerminateTake ==
    /\ Running
    /\ arg.pc = "take"
    /\ ret' = [ret EXCEPT !.shutdown_box = FALSE, !.in_process = @ - 1]
    /\ arg' = [arg EXCEPT !.pc = "drop_load", !.previous_count = ret.in_process]
    /\ UNCHANGED <<media, files, clock, pc, req, session>>

\* terminate: the drop of the box taken, from its load on: exit(0)
TerminateDropLoad ==
    /\ Running
    /\ arg.pc = "drop_load"
    /\ LET should_exit == ret.terminating
       IN ret' = [ret EXCEPT !.exited =
                    IF arg.previous_count = 1 /\ should_exit THEN "exit in terminate" ELSE @]
    /\ arg' = [arg EXCEPT !.pc = "unlock"]
    /\ UNCHANGED <<media, files, clock, pc, req, session>>

\* terminate returns and the write lock is released
TerminateReturn ==
    /\ Running
    /\ arg.pc = "unlock"
    /\ ret' = [ret EXCEPT !.writer = FALSE]
    /\ arg' = [arg EXCEPT !.pc = "race"]
    /\ UNCHANGED <<media, files, clock, pc, req, session>>

\* run_server: shutdown_future is the first of the race to complete,
\* run_server returns Ok(()) and main returns
RunServerReturn ==
    /\ Running
    /\ arg.pc = "race"
    /\ ret' = [ret EXCEPT !.exited = "main returned"]
    /\ arg' = [arg EXCEPT !.pc = "done"]
    /\ UNCHANGED <<media, files, clock, pc, req, session>>

InitShutdown ==
    /\ media = <<>>
    /\ files = <<>>
    /\ clock = 0
    /\ pc = [p \in 1..NumReqs |-> "arrived"]
    /\ req = [p \in 1..NumReqs |-> NewRequest]
    /\ session = [p \in 1..NumReqs |-> NoSession]
    /\ arg = [pc |-> "signal", previous_count |-> 0]
    /\ ret = NewShutdown

NextShutdown ==
    \/ \E p \in Slots : Reserve(p)
    \/ \E p \in Slots : ReserveFetchAdd(p)
    \/ \E p \in Slots : NextRun(p)
    \/ \E p \in Slots : DropFetchSub(p)
    \/ \E p \in Slots : DropLoad(p)
    \/ CtrlC
    \/ TerminateStore
    \/ TerminateTake
    \/ TerminateDropLoad
    \/ TerminateReturn
    \/ RunServerReturn

SpecShutdown == InitShutdown /\ [][NextShutdown]_vars

(***************************************************************************)
(* The flashes of one session over the requests of its browser, handled    *)
(* one after the other: the pages (GET /signin, GET /m/, GET /m/:hash_id), *)
(* POST /signin and DELETE /signout. ret keeps what the swap_flashes calls *)
(* of the handlers returned and what the pages showed.                     *)
(***************************************************************************)
Flashes(list) == {list[i] : i \in DOMAIN list}

\* Common::new: the CSRF token, the account, and the flashes taken out of the
\* session for the page
CommonNew(s, now, new_flashes) ==
    LET csrf == generate_csrf_token(Sid, now)
        swapped == swap_flashes(s, new_flashes)
    IN [common |-> [account |-> get_account(s), flashes |-> swapped.old, csrf |-> csrf],
        session |-> swapped.session]

\* the ids asked for: that of the stored record and one no record has
PageIds ==
    {choose_multiple(HASH_CHARS, HASH_MIN_LENGTH, 0), choose_multiple(HASH_CHARS, HASH_MIN_LENGTH, 1)}

\* the forms sent to POST /signin
SigninForms == {"invalid", "wrong user", "wrong password", "ok"}

\* the handler leaves the session s2; its swap_flashes calls returned old, it
\* made the messages of made, and it answered with the page or a redirect
Answer(s2, old, made, page) ==
    /\ session' = <<s2>>
    /\ ret' = [returned |-> (ret.returned \cup Flashes(old)) \ made,
               shown |-> IF page.some THEN ret.shown \cup Flashes(old) ELSE ret.shown \ made,
               old |-> old,
               page |-> page]
    /\ UNCHANGED <<media, files, clock, pc, req, arg>>

\* a page made by PageInfo::new and Common::new with no new flashes
RenderPage(s, path) ==
    LET made == CommonNew(s, clock, <<>>)
    IN Answer(made.session, made.common.flashes, {}, Some([info |-> path, common |-> made.common]))

\* endpoint/auth.rs, render_signin
render_signin ==
    /\ RenderPage(session[1], "/signin")

\* web/endpoint/media.rs, list_media: the page of the listing
list_media_page ==
    /\ RenderPage(session[1], "/m/")

\* web/endpoint/media.rs, media: the page of the record, or the flash and the
\* redirect to /
media_page(hash_id) ==
    LET s == session[1]
        media_record == fetch_media(media, hash_id)
        flashes == <<Error("Media {} not found")>>
        swapped == swap_flashes(s, flashes)
    IN IF media_record.some
       THEN RenderPage(s, "/m/{}")
       ELSE Answer(swapped.session, swapped.old, Flashes(flashes), None)

\* endpoint/auth.rs, signin
signin(form) ==
    LET s == session[1]
        params == validate_form(s, form)
        failed == swap_flashes(s, <<Error("User not found")>>)
        welcome == swap_flashes(set_account(s, "owner"), <<Info("Welcome back, {}")>>)
    IN CASE ~params.ok ->
                Answer(params.session, s.flashes, {Error("Validation error: {}")}, None)
         [] form \in {"wrong user", "wrong password"} ->
                Answer(failed.session, failed.old, {Error("User not found")}, None)
         [] form = "ok" ->
                Answer(welcome.session, welcome.old, {Info("Welcome back, {}")}, None)

\* endpoint/auth.rs, signout
signout ==
    LET s == session[1]
        login == ensure_login(s)
        swapped == swap_flashes(delete_account(s), <<Info("Signed out successfully.")>>)
    IN IF ~login.ok
       THEN Answer(login.session, s.flashes, {Info("Please sign in")}, None)
       ELSE Answer(swapped.session, swapped.old, {Info("Signed out successfully.")}, None)

\* the session of a browser that has not signed in, before its first request
InitFlash ==
    /\ \/ media = <<>> /\ files = <<>>
       \/ media = <<StoredRow>> /\ files = StoredFiles
    /\ clock = 0
    /\ pc = <<"idle">>
    /\ req = <<IdleReq>>
    /\ session = <<NoSession>>
    /\ arg = None
    /\ ret = [returned |-> {}, shown |-> {}, old |-> <<>>, page |-> None]

NextFlash ==
    \/ render_signin
    \/ list_media_page
    \/ \E hash_id \in PageIds : media_page(hash_id)
    \/ \E form \in SigninForms : signin(form)
    \/ signout

SpecFlash == InitFlash /\ [][NextFlash]_vars

(***************************************************************************)
(* Claims about the records and the files (Spec, SpecCreate).              *)
(***************************************************************************)
\* extension, allow-listed type and sniffed format of an input agree
Agree(a) ==
    \E ty \in ALLOWED_TYPES :
        /\ Extension(a.filename).some
        /\ MimeFromExt(Extension(a.filename).val) = Some(ty[1])
        /\ a.data.magic = ty[2]

\* C1: in every reachable state, under any interleaving of creates, updates
\* and deletes, no two rows of media have the same hash_id: an INSERT of an id
\* that a row already has is refused by the constraint and commits nothing.
C1_UniqueIds ==
    \A j, k \in DOMAIN media : media[j].hash_id = media[k].hash_id => j = k

\* a request was refused the id of an existing row and committed another id
C1_Witness ==
    /\ Len(media) >= 2
    /\ \E p \in Slots :
        /\ pc[p] \in {"save_thumbnail", "save_original"}
        /\ req[p].i > 0
        /\ \E k \in DOMAIN media : media[k] = req[p].record.val

AllDone == \A p \in Slots : pc[p] = "done"

\* the ids of the records the requests returned are pairwise distinct
ReturnedIdsDistinct ==
    \A p, q \in Slots :
        (req[p].resp = "ok" /\ req[q].resp = "ok" /\ p # q) =>
            req[p].record.val.hash_id # req[q].record.val.hash_id

\* C2 (as stated): N concurrent creates of valid images against an empty
\* store, with no other error, all succeed and return records with pairwise
\* distinct ids.
C2_AllCreatorsSucceed ==
    AllDone =>
        /\ \A p \in Slots : req[p].resp = "ok" /\ req[p].record.some
        /\ ReturnedIdsDistinct

\* C2 (amended): the ids of the records returned are pairwise distinct for
\* every N, and when N is at most MAX_RETRY every request succeeds and returns
\* a record; a request fails only after MAX_RETRY conflicts.
C2_UpToMaxRetrySucceed ==
    /\ ReturnedIdsDistinct
    /\ (AllDone /\ Cardinality(Slots) <= MAX_RETRY) =>
            \A p \in Slots : req[p].resp = "ok" /\ req[p].record.some
    /\ \A p \in Slots :
            (pc[p] = "done" /\ req[p].resp # "ok") =>
                (req[p].resp = "exhausted" /\ Len(media) >= MAX_RETRY)

\* MAX_RETRY creators have all succeeded, one of them on its last turn
C2_Witness ==
    /\ AllDone
    /\ Cardinality(Slots) = MAX_RETRY
    /\ \A p \in Slots : req[p].resp = "ok"
    /\ \E p \in Slots : Len(req[p].record.val.hash_id) = HASH_MIN_LENGTH + MAX_RETRY - 1

NoRepeat(s) == \A j, k \in DOMAIN s : s[j] = s[k] => j = k

\* C3: the hash_id of every row consists of symbols of HASH_CHARS, the 36
\* symbols 0-9a-z, and holds no symbol more than once.
C3_IdSymbols ==
    /\ Len(HASH_CHARS) = 36
    /\ \A k \in DOMAIN media :
        /\ \A j \in DOMAIN media[k].hash_id :
                \E c \in DOMAIN HASH_CHARS : media[k].hash_id[j] = HASH_CHARS[c]
        /\ NoRepeat(media[k].hash_id)

\* reserve_media_record committed an id of the second length it tries
C3_Witness ==
    \E k \in DOMAIN media :
        /\ media[k].uploaded > 0
        /\ Len(media[k].hash_id) = HASH_MIN_LENGTH + 1

\* C4 (as stated): in every reachable state every row of media has its
\* original file at {hash_id}.{extension}, and every row with has_thumbnail
\* has its thumbnail at thumbnails/{hash_id}.jpg.
C4_ArtifactsPresent ==
    \A k \in DOMAIN media :
        /\ OriginalPath(media[k].hash_id, media[k].extension) \in DOMAIN files
        /\ media[k].has_thumbnail => ThumbnailPath(media[k].hash_id) \in DOMAIN files

\* C5: a step of an upload whose validation fails (no extension, a type that
\* is not allowed, a sniffed format other than the type of the extension, a
\* body that does not decode) changes neither media nor the files, and ends
\* the request as invalid.
C5_InvalidLeavesStores ==
    [][\A p \in DOMAIN pc :
        ( /\ req'[p].kind = "upload"
          /\ ~(Agree(req'[p].upload) /\ req'[p].upload.data.decodes)
          /\ (pc'[p] # pc[p] \/ req'[p] # req[p]) )
        => ( /\ media' = media
             /\ files' = files
             /\ pc'[p] = "done"
             /\ req'[p].resp = "invalid" )]_vars

\* a JPEG named a.png was rejected while the stores held a record
C5_Witness ==
    /\ media # <<>>
    /\ files # <<>>
    /\ \E p \in Slots :
        /\ pc[p] = "done"
        /\ req[p].kind = "upload"
        /\ req[p].resp = "invalid"
        /\ Extension(req[p].upload.filename).some
        /\ ~Agree(req[p].upload)

\* the fields of a row that no statement of the program updates
CreationValues(row) ==
    [hash_id |-> row.hash_id, extension |-> row.extension,
     has_thumbnail |-> row.has_thumbnail, width |-> row.width, height |-> row.height,
     filesize |-> row.filesize, uploaded |-> row.uploaded]

\* C11: no step changes the hash_id, extension, has_thumbnail, width, height,
\* filesize or uploaded of a row; the write of an update sets is_private and
\* comment of the rows with its id to its arguments, leaves every other row
\* and the number of rows as they are, and changes no file; the lookup of an
\* update changes neither rows nor files.
C11_UpdateFrame ==
    [][ /\ \A j \in DOMAIN media : \A k \in DOMAIN media' :
              media[j].hash_id = media'[k].hash_id =>
                  CreationValues(media'[k]) = CreationValues(media[j])
        /\ \A p \in DOMAIN pc :
              (pc[p] = "update_record" /\ pc'[p] = "done") =>
                  /\ files' = files
                  /\ Len(media') = Len(media)
                  /\ \A k \in DOMAIN media :
                        IF media[k].hash_id = req[p].record.val.hash_id
                        THEN media'[k] = [media[k] EXCEPT !.is_private = req[p].private,
                                                          !.comment = Some(req[p].comment)]
                        ELSE media'[k] = media[k]
        /\ \A p \in DOMAIN pc :
              (pc[p] = "idle" /\ req'[p].kind = "update") =>
                  (media' = media /\ files' = files) ]_vars

\* an update was written while the table held a row with another id
C11_Witness ==
    \E p \in Slots :
        /\ pc[p] = "done"
        /\ req[p].kind = "update"
        /\ req[p].resp = "ok"
        /\ \E k \in DOMAIN media : media[k].hash_id # req[p].hash_id
        /\ \E k \in DOMAIN media : media[k] = req[p].record.val /\ media[k].comment.some

\* C12 (as stated): an update whose id has no row at the moment of its write
\* (never created, or deleted, also by a delete that ran between the lookup
\* and the write of the update) ends as not found, never as an internal
\* error; an update ends as an error only when its write found no row.
C12_MissingRowIsNotFound ==
    \A p \in Slots :
        (pc[p] = "done" /\ req[p].kind = "update") => req[p].resp \in {"ok", "not_found"}

\* request p is a delete that reported success
DeletedOk(p) == pc[p] = "done" /\ req[p].kind = "delete" /\ req[p].resp = "ok"

\* the request of p reported the success of its upload
UploadedOk(p) == pc[p] = "done" /\ req[p].kind = "upload" /\ req[p].resp = "ok"

\* no upload has committed the id of delete p in a row later than the row
\* that p deleted
NotCommittedAgain(p) ==
    \A r \in Slots :
        ~ ( /\ req[r].kind = "upload"
            /\ req[r].record.some
            /\ req[r].record.val.hash_id = req[p].hash_id
            /\ req[r].record.val.uploaded > req[p].record.val.uploaded )

SeenRows == {req[p].record.val : p \in {q \in Slots : req[q].record.some}}

\* C14 (as stated): an id, once committed, is never committed again, also
\* after its row was deleted: two rows committed at different times never
\* have the same hash_id.
C14_NeverReused ==
    \A a \in SeenRows : \A b \in SeenRows :
        a.uploaded # b.uploaded => a.hash_id # b.hash_id

\* this step is the write of an update or of a delete on the id
WritesId(hash_id) ==
    \E q \in DOMAIN pc :
        /\ pc[q] \in {"update_record", "remove_record"}
        /\ pc'[q] = "done"
        /\ req[q].record.val.hash_id = hash_id

\* C15: when an upload commits its row, fetch_media of the id returned gives
\* a record equal to the one returned in every field, and it keeps giving that
\* record over every step that is not the write of an update or of a delete
\* on that id.
C15_RoundTrip ==
    [][ /\ \A p \in DOMAIN pc :
              (pc[p] = "reserve" /\ pc'[p] \in {"save_thumbnail", "save_original"}) =>
                  fetch_media(media', req'[p].record.val.hash_id) = req'[p].record
        /\ \A k \in DOMAIN media :
              ~WritesId(media[k].hash_id) =>
                  fetch_media(media', media[k].hash_id) = fetch_media(media, media[k].hash_id) ]_vars

\* an upload has ended, the table holds an older row as well, and fetch_media
\* of the id returned gives the record returned
C15_Witness ==
    \E p \in Slots :
        /\ pc[p] = "done"
        /\ req[p].kind = "upload"
        /\ req[p].resp = "ok"
        /\ Len(media) >= 2
        /\ media[1] # req[p].record.val
        /\ fetch_media(media, req[p].record.val.hash_id) = req[p].record

\* C16: in every reachable state, for every row and every pair of arguments,
\* update_media_record applied twice with the same arguments returns the same
\* record both times and leaves the table that one application leaves.
C16_UpdateIdempotent ==
    \A k \in DOMAIN media : \A private \in BOOLEAN : \A comment \in Comments :
        LET hash_id == media[k].hash_id
            once == update_media_record(media, hash_id, private, comment)
            twice == update_media_record(once, hash_id, private, comment)
        IN /\ twice = once
           /\ fetch_media(once, hash_id).some
           /\ fetch_media(twice, hash_id) = fetch_media(once, hash_id)
           /\ fetch_media(once, hash_id).val.is_private = private
           /\ fetch_media(once, hash_id).val.comment = Some(comment)

\* two updates of one id have ended, with the same record returned, which is
\* the record stored
C16_Witness ==
    \E p \in Slots : \E q \in Slots :
        /\ p # q
        /\ pc[p] = "done" /\ req[p].kind = "update" /\ req[p].resp = "ok"
        /\ pc[q] = "done" /\ req[q].kind = "update" /\ req[q].resp = "ok"
        /\ req[p].hash_id = req[q].hash_id
        /\ req[p].record = req[q].record
        /\ fetch_media(media, req[p].hash_id) = req[p].record

\* C19: after any sequence of uploads, updates and deletes, the listing of the
\* index page holds no record with is_private = TRUE and holds every public
\* record of the store (the store holding no more than MEDIA_LIST_COUNT): a
\* record an update made private is not listed, one it made public is.
C19_ListingIsPublic ==
    \A listing \in list_media(media) :
        /\ \A j \in DOMAIN listing : ~listing[j].is_private
        /\ \A j \in DOMAIN listing : \E k \in DOMAIN media : media[k] = listing[j]
        /\ Len(media) <= MEDIA_LIST_COUNT =>
                \A k \in DOMAIN media :
                    ~media[k].is_private => \E j \in DOMAIN listing : listing[j] = media[k]

\* an update made the stored record private and an upload added a public
\* one: the listing holds the second and not the first
C19_Witness ==
    \E p \in Slots :
        /\ pc[p] = "done" /\ req[p].kind = "update" /\ req[p].resp = "ok"
        /\ req[p].record.val.is_private
        /\ \E k \in DOMAIN media : media[k] = req[p].record.val
        /\ \A listing \in list_media(media) :
                /\ Len(listing) = 1
                /\ listing[1].hash_id # req[p].hash_id

\* the step removed the file at path
Removed(path) == path \in DOMAIN files /\ path \notin DOMAIN files'

\* the step removed or wrote no file but, at most, the one at path
OnlyTouched(path) ==
    \A q \in (DOMAIN files \cup DOMAIN files') \ {path} :
        q \in DOMAIN files /\ q \in DOMAIN files' /\ files'[q] = files[q]

\* C30: a delete request removes the original file, then the thumbnail file
\* if and only if the row it looked up has has_thumbnail, then the row: each
\* step touches nothing but its own target, the next removal is reached only
\* when the one before it removed its file, and the row is removed only on the
\* last step.
C30_DeleteOrder ==
    [][\A p \in Slots :
        LET record == req[p].record.val
            filename == OriginalPath(record.hash_id, record.extension)
            thumb_filename == ThumbnailPath(record.hash_id)
        IN /\ (pc'[p] = "remove_original" /\ pc[p] # pc'[p])
              => pc[p] = "idle" /\ media' = media /\ files' = files
           /\ (pc[p] = "remove_original" /\ pc'[p] # pc[p])
              => /\ media' = media
                 /\ OnlyTouched(filename)
                 /\ pc'[p] = "remove_thumbnail"
                        <=> (Removed(filename) /\ record.has_thumbnail)
                 /\ pc'[p] = "remove_record"
                        <=> (Removed(filename) /\ ~record.has_thumbnail)
                 /\ pc'[p] = "done" <=> files' = files
           /\ (pc[p] = "remove_thumbnail" /\ pc'[p] # pc[p])
              => /\ media' = media
                 /\ record.has_thumbnail
                 /\ OnlyTouched(thumb_filename)
                 /\ pc'[p] = "remove_record" <=> Removed(thumb_filename)
                 /\ pc'[p] = "done" <=> files' = files
           /\ (pc[p] = "remove_record" /\ pc'[p] # pc[p])
              => /\ files' = files
                 /\ ~fetch_media(media', record.hash_id).some
           /\ (pc'[p] # pc[p] /\ req'[p].kind = "delete" /\ media' # media)
              => pc[p] = "remove_record"]_vars

\* a delete of a row with a thumbnail reported success: the row and both
\* files are gone
C30_Witness ==
    \E p \in Slots :
        /\ DeletedOk(p)
        /\ req[p].record.val.has_thumbnail
        /\ ~fetch_media(media, req[p].hash_id).some
        /\ ThumbnailPath(req[p].hash_id) \notin DOMAIN files
        /\ OriginalPath(req[p].hash_id, req[p].record.val.extension) \notin DOMAIN files

\* C31 (as stated): in every reachable state, every file of the artifact
\* store, original or thumbnail, has a record with its id in the record store.
C31_NoFileWithoutRecord ==
    \A path \in DOMAIN files : \E k \in DOMAIN media : media[k].hash_id = path[2]

(***************************************************************************)
(* Claims about deletes that race (SpecRace).                              *)
(***************************************************************************)
\* C34: a delete whose removal of the original or of the thumbnail fails, the
\* file being missing, ends at that step with an error and leaves the stores
\* as they are; a row is removed only by the step on which a delete reports
\* success, and then the row of the id and every file of the record the
\* delete looked up are gone. So a delete that finds the original of its
\* record missing removes no row.
C34_FailedDeleteKeepsRow ==
    [][\A p \in Slots :
        LET record == req[p].record.val
            filename == OriginalPath(record.hash_id, record.extension)
            thumb_filename == ThumbnailPath(record.hash_id)
        IN /\ (pc[p] = "remove_original" /\ pc'[p] # pc[p] /\ filename \notin DOMAIN files)
              => /\ pc'[p] = "done" /\ req'[p].resp = "error"
                 /\ media' = media /\ files' = files
           /\ (pc[p] = "remove_thumbnail" /\ pc'[p] # pc[p]
                    /\ thumb_filename \notin DOMAIN files)
              => /\ pc'[p] = "done" /\ req'[p].resp = "error"
                 /\ media' = media /\ files' = files
           /\ (pc[p] # "done" /\ DeletedOk(p)')
              => /\ ~fetch_media(media', record.hash_id).some
                 /\ filename \notin DOMAIN files'
                 /\ record.has_thumbnail => thumb_filename \notin DOMAIN files'
           /\ (pc'[p] # pc[p] /\ req'[p].kind = "delete" /\ media' # media)
              => DeletedOk(p)'
           /\ (pc[p] = "done" /\ req[p].kind = "delete" /\ req[p].resp = "error")
              => pc'[p] = "done" /\ req'[p] = req[p]]_vars

\* a delete removed the original of a later upload of its id and failed at the
\* thumbnail, which that upload never had: the row of the upload is left
C34_Witness ==
    \E p \in Slots : \E q \in Slots :
        /\ pc[p] = "done" /\ req[p].kind = "delete" /\ req[p].resp = "error"
        /\ req[p].record.val.has_thumbnail
        /\ UploadedOk(q)
        /\ req[q].record.val.hash_id = req[p].hash_id
        /\ ~req[q].record.val.has_thumbnail
        /\ fetch_media(media, req[p].hash_id) = req[q].record
        /\ OriginalPath(req[p].hash_id, req[q].record.val.extension) \notin DOMAIN files

\* C35 (as stated): of two deletes that looked up the same record, the one
\* before either removed it, at most one reports success.
C35_AtMostOneDeleteSucceeds ==
    \A p \in Slots : \A q \in Slots :
        (DeletedOk(p) /\ DeletedOk(q) /\ req[p].record = req[q].record) => p = q

(***************************************************************************)
(* Claims about the steps of an upload (SpecAlloc).                        *)
(***************************************************************************)
\* the step is an insert attempt of request p
Attempted(p) == pc[p] = "reserve" /\ (pc'[p] # pc[p] \/ req'[p] # req[p])

\* C23 (as stated): the allocator makes a further attempt only when the store
\* reported a uniqueness violation; any other error of the store, a constraint
\* violation of another kind included, ends the request at once.
C23_RetryOnlyOnUniqueViolation ==
    [][\A p \in Slots :
          (Attempted(p) /\ pc'[p] = "reserve") =>
                req'[p].query_result = Some(SqlUniqueViolation)]_vars

\* C24: a create request makes at most 5 insert attempts, one after the other:
\* the first starts with no attempt before it, each later one after the one
\* before it was refused as a conflict; the k-th attempt uses a candidate of
\* length 6 + (k - 1), so that an id reported taken has that length and a
\* committed id has length 6 plus the number of refusals, between 6 and 10.
C24_AttemptsAndLengths ==
    [][\A p \in Slots :
          Attempted(p) =>
            /\ req[p].i \in 0..4
            /\ req[p].i = 0 => ~req[p].query_result.some
            /\ req[p].i >= 1 => (req[p].query_result.some /\ req[p].query_result.val[1] = "23")
            /\ pc'[p] = "reserve" => (req'[p].i = req[p].i + 1 /\ media' = media)
            /\ (pc'[p] = "reserve" /\ req'[p].query_result = Some(SqlUniqueViolation)) =>
                    \E k \in DOMAIN media : Len(media[k].hash_id) = 6 + req[p].i
            /\ media' # media =>
                    /\ media' = Append(media, req'[p].record.val)
                    /\ Len(req'[p].record.val.hash_id) = 6 + req[p].i
                    /\ Len(req'[p].record.val.hash_id) \in 6..10]_vars

\* an upload committed an id of 8 symbols at its third attempt
C24_Witness ==
    \E p \in Slots :
        /\ pc[p] = "save_original"
        /\ req[p].i = 2
        /\ Len(req[p].record.val.hash_id) = 8
        /\ \E k \in DOMAIN media : media[k] = req[p].record.val

\* C25: when the fifth insert attempt of a create request meets a uniqueness
\* conflict, as the four before it met conflicts, the request fails as
\* exhausted, with no record committed and no file written; a request fails as
\* exhausted only at its fifth attempt; a conflict at an earlier attempt is followed by
\* the next attempt and not reported; and a request commits at most one
\* record, after which it makes no attempt.
C25_ExhaustedOrTransparent ==
    [][\A p \in Slots :
          /\ Attempted(p) =>
                /\ (req[p].i = 4 /\ req'[p].query_result = Some(SqlUniqueViolation)) =>
                        /\ pc'[p] = "done"
                        /\ req'[p].resp = "exhausted"
                /\ (req[p].i < 4 /\ req'[p].query_result = Some(SqlUniqueViolation)) =>
                        /\ pc'[p] = "reserve"
                        /\ req'[p].resp = "none"
                /\ (pc'[p] = "done" /\ req'[p].resp = "exhausted") =>
                        /\ req[p].i = 4
                        /\ media' = media
                        /\ files' = files
                        /\ ~req'[p].record.some
                /\ media' # media =>
                        /\ ~req[p].record.some
                        /\ req'[p].record.some
                        /\ Len(media') = Len(media) + 1
                        /\ pc'[p] \in {"save_thumbnail", "save_original"}
          /\ req[p].record.some => (pc'[p] # "reserve" /\ req'[p].record = req[p].record)
          /\ (pc[p] = "done" /\ req[p].resp = "exhausted") =>
                (pc'[p] = "done" /\ req'[p] = req[p])]_vars

\* an upload met five taken ids and failed as exhausted, the store as it was
C25_Witness ==
    \E p \in Slots :
        /\ pc[p] = "done"
        /\ req[p].resp = "exhausted"
        /\ req[p].query_result = Some(SqlUniqueViolation)
        /\ ~req[p].record.some
        /\ media = [k \in 1..5 |-> TakenRow(k)]
        /\ files = TakenFiles(5)

\* the paths the step wrote: new ones, and ones whose content changed
Written ==
    {path \in DOMAIN files' : path \notin DOMAIN files \/ files'[path] # files[path]}

\* C26: in a create request the steps come in the order validate, derive the
\* thumbnail, commit the record, write the files: a record is inserted only
\* for an upload that validate_image_file accepted and with the thumbnail
\* decision create_thumbnail made, an upload that was rejected never gets to
\* an insert, and a file is written only under the id of the record the
\* request has committed, which the store holds.
C26_UploadOrder ==
    [][\A p \in Slots :
          /\ (pc[p] = "idle" /\ pc'[p] # "idle") =>
                /\ media' = media /\ files' = files
                /\ pc'[p] = "reserve" <=> req'[p].upload \in ValidUploads
                /\ pc'[p] = "done" <=> req'[p].upload \notin ValidUploads
          /\ Attempted(p) =>
                /\ files' = files
                /\ req[p].upload \in ValidUploads
                /\ req[p].validated.some
                /\ req[p].thumbnail = create_thumbnail(req[p].upload.data.width,
                                                       req[p].upload.data.height)
                /\ media' # media =>
                        req'[p].record.val.has_thumbnail = req[p].thumbnail.some
          /\ (pc[p] \in {"save_thumbnail", "save_original"} /\ pc'[p] # pc[p]) =>
                /\ media' = media
                /\ req[p].record.some
                /\ \E k \in DOMAIN media : media[k] = req[p].record.val
                /\ \A path \in Written : path[2] = req[p].record.val.hash_id]_vars

\* an upload of the large a.jpeg has ended well: its record is stored with
\* has_thumbnail, and both files are there under its id
C26_Witness ==
    \E p \in Slots :
        /\ pc[p] = "done" /\ req[p].kind = "upload" /\ req[p].resp = "ok"
        /\ req[p].record.val.has_thumbnail
        /\ \E k \in DOMAIN media : media[k] = req[p].record.val
        /\ ThumbnailPath(req[p].record.val.hash_id) \in DOMAIN files
        /\ OriginalPath(req[p].record.val.hash_id, req[p].record.val.extension) \in DOMAIN files

\* the file at path is there, written to its end
Complete(path) == path \in DOMAIN files /\ files[path].complete

\* C27: a create request has returned success only when its original file was
\* written to its end, in the format and the size of the upload, and, when a
\* thumbnail was derived, its thumbnail file as well, as JPEG.
C27_SuccessAfterWrites ==
    \A p \in Slots :
        (pc[p] = "done" /\ req[p].kind = "upload" /\ req[p].resp = "ok") =>
            LET record == req[p].record.val
                original == OriginalPath(record.hash_id, record.extension)
                thumbnail == create_thumbnail(req[p].upload.data.width,
                                              req[p].upload.data.height)
            IN /\ Complete(original)
               /\ files[original].width = req[p].upload.data.width
               /\ files[original].height = req[p].upload.data.height
               /\ files[original].format = req[p].upload.data.magic
               /\ record.has_thumbnail = thumbnail.some
               /\ thumbnail.some =>
                    /\ Complete(ThumbnailPath(record.hash_id))
                    /\ files[ThumbnailPath(record.hash_id)].format = "Jpeg"
                    /\ files[ThumbnailPath(record.hash_id)].width = thumbnail.val.width
                    /\ files[ThumbnailPath(record.hash_id)].height = thumbnail.val.height

\* an upload of the small a.png, which gets no thumbnail, has ended well with
\* its one file written
C27_Witness ==
    \E p \in Slots :
        /\ pc[p] = "done" /\ req[p].kind = "upload" /\ req[p].resp = "ok"
        /\ ~req[p].record.val.has_thumbnail
        /\ Complete(OriginalPath(req[p].record.val.hash_id, req[p].record.val.extension))
        /\ ThumbnailPath(req[p].record.val.hash_id) \notin DOMAIN files

\* C28: a create request that derived a thumbnail and committed its record
\* ends only after its original write was dispatched and awaited, whatever
\* became of the thumbnail write: the step on which it ends is the end of the
\* original write.
C28_BothWritesAwaited ==
    [][\A p \in Slots :
        (pc[p] # "done" /\ pc'[p] = "done" /\ req'[p].kind = "upload"
            /\ req'[p].record.some /\ req'[p].record.val.has_thumbnail)
        => pc[p] = "save_original"]_vars

\* the file the request of p is writing
WritingPath(p) ==
    IF pc[p] = "save_thumbnail" THEN ThumbnailPath(req[p].record.val.hash_id)
    ELSE OriginalPath(req[p].record.val.hash_id, req[p].record.val.extension)

\* the request of p ended with an error after its record was committed
FailedAfterCommit(p) ==
    pc[p] = "done" /\ req[p].kind = "upload" /\ req[p].resp = "error" /\ req[p].record.some

\* C29: when a write of a file fails after the record was committed, the
\* request ends with an error, and the record is in the store as it was
\* inserted, then and from then on: the failing step leaves the store alone,
\* and has_thumbnail still tells whether a thumbnail was derived, not whether
\* its file was written.
C29_NoRollback ==
    [][\A p \in Slots :
        /\ (pc[p] \in {"save_thumbnail", "save_original"} /\ pc'[p] # pc[p]
                /\ ~(WritingPath(p) \in DOMAIN files' /\ files'[WritingPath(p)].complete))
           => /\ pc'[p] = "done"
              /\ req'[p].resp = "error"
              /\ req'[p].record = req[p].record
              /\ media' = media
              /\ \E k \in 1..Len(media') : media'[k] = req[p].record.val
              /\ req[p].record.val.has_thumbnail = req[p].thumbnail.some
        /\ FailedAfterCommit(p)
           => /\ req'[p] = req[p]
              /\ \E k \in 1..Len(media') : media'[k] = req[p].record.val]_vars

\* the write of the thumbnail failed before a byte was written: the record
\* says there is a thumbnail, and neither file is there
C29_Witness ==
    \E p \in Slots :
        /\ FailedAfterCommit(p)
        /\ req[p].record.val.has_thumbnail
        /\ \E k \in 1..Len(media) : media[k] = req[p].record.val
        /\ ThumbnailPath(req[p].record.val.hash_id) \notin DOMAIN files
        /\ OriginalPath(req[p].record.val.hash_id, req[p].record.val.extension)
                \notin DOMAIN files

(***************************************************************************)
(* Claims about the files of an upload (SpecFormats).                      *)
(***************************************************************************)
\* C32: the record an upload commits has has_thumbnail = TRUE exactly when
\* create_thumbnail returned an image, which is exactly when the decoded
\* image is wider than 320 or higher than 180; the thumbnail is written then
\* and only then, at thumbnails/{id}.jpg and as JPEG whatever the format of
\* the upload, and it is there, whole, when the upload reports success.
C32_HasThumbnailIffDerived ==
    [][\A p \in Slots :
        LET image == req[p].validated.val.image
            id == req[p].record.val.hash_id
        IN /\ (Attempted(p) /\ media' # media)
              => /\ media'[Len(media')] = req'[p].record.val
                 /\ req'[p].record.val.has_thumbnail
                        = create_thumbnail(image.width, image.height).some
                 /\ req'[p].record.val.has_thumbnail
                        = (image.width > 320 \/ image.height > 180)
                 /\ pc'[p] = "save_thumbnail" <=> req'[p].record.val.has_thumbnail
           /\ (pc[p] = "save_thumbnail" /\ pc'[p] # pc[p])
              => /\ req[p].record.val.has_thumbnail
                 /\ \A path \in Written :
                        /\ path = <<"thumbnails", id, "jpg">>
                        /\ files'[path].format = "Jpeg"
           /\ (pc[p] = "save_original" /\ pc'[p] # pc[p])
              => /\ \A path \in Written : path[1] # "thumbnails"
                 /\ (req'[p].resp = "ok" /\ req[p].record.val.has_thumbnail)
                        => /\ <<"thumbnails", id, "jpg">> \in DOMAIN files'
                           /\ files'[<<"thumbnails", id, "jpg">>].complete
                           /\ files'[<<"thumbnails", id, "jpg">>].format = "Jpeg"]_vars

\* an upload of the GIF, one column wider than the box, reported success: its
\* record has a thumbnail, which is a JPEG file, and its original is a GIF file
C32_Witness ==
    \E p \in Slots :
        /\ UploadedOk(p)
        /\ req[p].upload.data.magic = "Gif"
        /\ req[p].record.val.has_thumbnail
        /\ Complete(ThumbnailPath(req[p].record.val.hash_id))
        /\ files[ThumbnailPath(req[p].record.val.hash_id)].format = "Jpeg"
        /\ files[OriginalPath(req[p].record.val.hash_id, "gif")].format = "Gif"

\* the file at {id}.{extension} of the record the request of p committed
OriginalOf(p) ==
    files[OriginalPath(req[p].record.val.hash_id, req[p].record.val.extension)]

\* C33 (as stated): after a successful upload the file at {id}.{extension}
\* holds the bytes of the upload, as many as the recorded filesize: two such
\* files with the same content come from uploads of the same bytes, and their
\* records have the same filesize.
C33_OriginalHoldsUploadBytes ==
    \A p \in Slots : \A q \in Slots :
        (UploadedOk(p) /\ UploadedOk(q) /\ OriginalOf(p) = OriginalOf(q))
        => /\ req[p].upload.data = req[q].upload.data
           /\ req[p].record.val.filesize = req[q].record.val.filesize

(***************************************************************************)
(* Claims about the graceful shutdown (SpecShutdown).                      *)
(***************************************************************************)
\* reserve of request p failed
Refused(p) == pc[p] = "done" /\ req[p].status = "Already started to terminate"

\* C36: once terminate has stored terminating, a request that comes to
\* reserve is refused with "Already started to terminate": the counter is
\* left alone and the handler of the request is not run, then or later. A
\* handler runs only for a request that was counted, and a request is counted
\* while the box is in place; terminate goes on from its write lock only when
\* no request is between its match on the box and its count.
C36_NoAdmissionAfterTerminate ==
    [][ /\ \A p \in Slots :
            /\ (pc[p] = "arrived" /\ pc'[p] # "arrived" /\ ret.terminating)
               => /\ Refused(p)'
                  /\ ~req'[p].ran
                  /\ ret'.in_process = ret.in_process
            /\ Refused(p) => (Refused(p)' /\ ~req'[p].ran)
            /\ (req'[p].ran /\ ~req[p].ran) => pc[p] = "next_run"
            /\ (pc'[p] = "next_run" /\ pc[p] # "next_run")
               => /\ ret'.in_process = ret.in_process + 1
                  /\ ret.shutdown_box /\ ~ret.terminating
        /\ (arg.pc = "write" /\ arg'.pc # "write") => \A p \in Slots : pc[p] # "reserve"
        /\ ret'.writer => \A p \in Slots : pc'[p] # "reserve" ]_vars

\* a request was refused while a request admitted before terminate is
\* still in process
C36_Witness ==
    /\ ret.exited = "no"
    /\ ret.terminating
    /\ \E p \in Slots : \E q \in Slots :
        /\ Refused(p)
        /\ pc[q] \in {"next_run", "drop"}
        /\ ret.in_process = 1

\* C37 (as stated): the process has ended only in a state where terminating
\* is set, the counter of requests in process is zero and no admitted request
\* is before the end of its handler.
C37_ExitOnlyWhenIdle ==
    ret.exited # "no" =>
        /\ ret.terminating
        /\ ret.in_process = 0
        /\ \A p \in Slots : pc[p] \notin {"reserve", "next_run", "drop"}

\* C38 (as stated): the process is ended by one of two events: by terminate
\* itself, whose drop of the box found no request in process, or else by the
\* end of the last request in process, whose drop is the one decrement that
\* found the counter at one.
C38_ExitByTerminateOrLastRequest ==
    [][(ret.exited = "no" /\ ret'.exited # "no") =>
        \/ /\ arg.pc = "drop_load" /\ arg'.pc # arg.pc
           /\ arg.previous_count = 1
           /\ \A p \in Slots : pc[p] \notin {"next_run", "drop"}
        \/ \E p \in Slots :
              /\ pc[p] = "drop_load" /\ pc'[p] = "done"
              /\ req[p].previous_count = 1
              /\ ret.terminating /\ ret.in_process = 0
              /\ \A q \in Slots \ {p} : pc[q] \notin {"next_run", "drop"}]_vars

(***************************************************************************)
(* Claims about the flashes of a session (SpecFlash).                      *)
(***************************************************************************)
\* C40, as the handlers have it: a page made by Common::new with no new
\* flashes shows the flashes the session held and leaves the session without
\* any, and no message a page has shown is shown by a later page (for the
\* requests of a session handled one after the other)
C40_ShownAtMostOnce ==
    [][ret'.page.some =>
          /\ ret'.page.val.common.flashes = session[1].flashes
          /\ session'[1].flashes = <<>>
          /\ Flashes(ret'.page.val.common.flashes) \cap ret.shown = {}]_vars

\* a page has shown the flash of the signout together with the "Please sign
\* in" that ensure_login! pushed after it, and the session holds none
C40_Witness ==
    /\ ret.page.some
    /\ ret.page.val.common.flashes = <<Info("Please sign in"), Info("Signed out successfully.")>>
    /\ session[1].flashes = <<>>

\* C40 as it is stated: after a page the session holds no flash, and no
\* message a swap_flashes has returned is returned by a later swap_flashes
C40_ReturnedAtMostOnce ==
    [][/\ ret'.page.some => session'[1].flashes = <<>>
       /\ Flashes(ret'.old) \cap ret.returned = {}]_vars

(***************************************************************************)
(* Claims about ensure_login! (SpecAuth).                                  *)
(***************************************************************************)
\* the step is one of request p
Acted(p) == pc'[p] # pc[p] \/ req'[p] # req[p] \/ session'[p] # session[p]

\* the step changed a store or the account of the session of p
ChangedByStep(p) ==
    media' # media \/ files' # files \/ session'[p].account # session[p].account

\* a request with no account in its session is answered with the redirect to
\* /signin, the stores and the account as they were
Redirected(p) ==
    /\ pc'[p] = "done"
    /\ req'[p].resp = "signin"
    /\ media' = media
    /\ files' = files
    /\ session'[p].account = session[p].account

FlashSet(flashes) == {flashes[i] : i \in DOMAIN flashes}

\* C20 (as stated): upload, update, delete and signout change the stores or
\* the account of the session only when the session holds an account; with no
\* account the request is redirected to /signin, the stores are unchanged, and
\* the flashes of the session are those pending with "Please sign in" appended.
C20_AppendsPleaseSignIn ==
    [][\A p \in Slots :
          /\ (Acted(p) /\ ChangedByStep(p)) => get_account(session[p]).some
          /\ (Acted(p) /\ ~get_account(session[p]).some) =>
                /\ Redirected(p)
                /\ session'[p].flashes = Append(session[p].flashes, Info("Please sign in"))]_vars

\* C20 (amended): upload, update, delete and signout change the stores or the
\* account of the session only when the session holds an account; with no
\* account the request is redirected to /signin, the stores are unchanged, and
\* the flashes of the session are those pending together with "Please sign
\* in", each once, in the order of Flash (Info before Warning before Error,
\* and by text within a variant): "Please sign in" is not added a second time
\* and stands before every pending Error.
C20_LoginGate ==
    [][\A p \in Slots :
          /\ (Acted(p) /\ ChangedByStep(p)) => get_account(session[p]).some
          /\ (Acted(p) /\ ~get_account(session[p]).some) =>
                /\ Redirected(p)
                /\ FlashSet(session'[p].flashes) =
                        FlashSet(session[p].flashes) \cup {Info("Please sign in")}
                /\ \A i \in DOMAIN session'[p].flashes : \A j \in DOMAIN session'[p].flashes :
                        i < j => FlashLess(session'[p].flashes[i], session'[p].flashes[j])]_vars

\* a delete without an account left "Please sign in" before the pending
\* "Media {} not found", while a signout with the account removed it
C20_Witness ==
    \E p \in Slots : \E q \in Slots :
        /\ pc[p] = "done" /\ req[p].kind = "delete" /\ req[p].resp = "signin"
        /\ session[p].flashes = <<Info("Please sign in"), Error("Media {} not found")>>
        /\ Len(media) = 1
        /\ pc[q] = "done" /\ req[q].kind = "signout" /\ req[q].resp = "ok"
        /\ ~session[q].account.some

(***************************************************************************)
(* Claims about fetch_media_list (SpecList).                               *)
(***************************************************************************)
\* the rows a listing with the cursor may return
Matching(latest) ==
    {media[k] : k \in {j \in DOMAIN media :
        /\ ~media[j].is_private
        /\ latest.some => media[j].uploaded < latest.val}}

DistinctTimes(rows) == \A a \in rows : \A b \in rows : a # b => a.uploaded # b.uploaded

StrictlyDescending(rows) ==
    \A i \in 1..(Len(rows) - 1) : rows[i].uploaded > rows[i + 1].uploaded

\* C17 (as stated): a listing with limit N returns at most N records in
\* strictly descending order of uploaded, and with a cursor T only records
\* with uploaded older than T.
C17_StrictlyDescending ==
    \A i \in DOMAIN ret.pages :
        LET page == ret.pages[i]
        IN /\ Len(page.rows) <= arg.limit
           /\ StrictlyDescending(page.rows)
           /\ page.latest.some =>
                \A j \in DOMAIN page.rows : page.rows[j].uploaded < page.latest.val

\* C17 (amended): a listing with limit N returns the N newest of the public
\* records older than the cursor (all of them when there are fewer), each
\* once, in descending order of uploaded: no record comes before a newer one,
\* and the order is strict when these records have distinct timestamps;
\* records with the same timestamp follow each other.
C17_Descending ==
    \A i \in DOMAIN ret.pages :
        LET page == ret.pages[i]
            rows == page.rows
        IN /\ Len(rows) = Min(arg.limit, Cardinality(Matching(page.latest)))
           /\ \A j \in DOMAIN rows : rows[j] \in Matching(page.latest)
           /\ \A j \in DOMAIN rows : \A k \in DOMAIN rows : rows[j] = rows[k] => j = k
           /\ \A j \in 1..(Len(rows) - 1) : rows[j].uploaded >= rows[j + 1].uploaded
           /\ \A j \in DOMAIN rows : \A o \in Matching(page.latest) :
                    o.uploaded > rows[j].uploaded => \E k \in 1..j : rows[k] = o
           /\ DistinctTimes(Matching(page.latest)) => StrictlyDescending(rows)

\* a listing with a cursor returned two records and left out an older one
C17_Witness ==
    \E i \in DOMAIN ret.pages :
        /\ ret.pages[i].latest.some
        /\ Len(ret.pages[i].rows) = 2
        /\ arg.limit = 2
        /\ ret.pages[i].rows[1].uploaded > ret.pages[i].rows[2].uploaded
        /\ Cardinality(Matching(ret.pages[i].latest)) = 3

\* the places of the records the pages have returned
Visits == {<<i, j>> : i \in DOMAIN ret.pages, j \in 1..MaxLimit} \cap
          {v \in (DOMAIN ret.pages) \X (1..MaxLimit) : v[2] <= Len(ret.pages[v[1]].rows)}

\* C18: paging with the cursor set to the oldest timestamp of the page before
\* never returns a record twice, and when the records to list have distinct
\* timestamps and the limit is at least 1, the pages up to the empty page
\* return every public record older than the first cursor.
C18_PagingVisitsOnce ==
    /\ \A v \in Visits : \A w \in Visits :
            ret.pages[v[1]].rows[v[2]] = ret.pages[w[1]].rows[w[2]] => v = w
    /\ (ret.done /\ arg.limit >= 1 /\ DistinctTimes(Matching(arg.latest))) =>
            {ret.pages[v[1]].rows[v[2]] : v \in Visits} = Matching(arg.latest)

\* three records with distinct timestamps were returned in two pages, and the
\* third page was empty
C18_Witness ==
    /\ ret.done
    /\ Len(ret.pages) = 3
    /\ Len(ret.pages[1].rows) = 2
    /\ Len(ret.pages[2].rows) = 1
    /\ DistinctTimes(Matching(arg.latest))
    /\ Cardinality(Matching(arg.latest)) = 3

(***************************************************************************)
(* Claims about the middlewares of the web routes (SpecCsrf).              *)
(***************************************************************************)
\* the field _token of the request holds a token that verifies for the session
TokenFieldVerifies ==
    /\ arg.request._token.some
    /\ verify_csrf_token(arg.sid, arg.now, arg.request._token.val)

\* C21 (as stated): a web request whose method after the _method override is
\* not GET, HEAD or OPTIONS reaches its handler only if its field _token holds
\* a CSRF token that verifies for its session; with a missing or invalid token
\* the response is 400 Bad Request and the handler is not run.
C21_TokenGuardsHandler ==
    (ret.stage = "done" /\ ret.request.method \notin ALLOWED_METHODS) =>
        /\ ret.ran => TokenFieldVerifies
        /\ ~TokenFieldVerifies => (ret.status = "BadRequest" /\ ~ret.ran)

(***************************************************************************)
(* Claims about the CSRF token (SpecToken).                                *)
(***************************************************************************)
\* C39: a token made for a session at time t, when it arrives as it was made,
\* is accepted for a session at time t' exactly when the session is the same
\* and t' - t is at most 86400; it is rejected when it arrives damaged: too
\* short for a nonce, not decryptable, not base64, or not of two words.
C39_TokenRoundTrip ==
    ret.done =>
        /\ arg.damage = "none" =>
                (ret.out.ok <=> (arg.verifier = arg.session /\ arg.now - arg.time <= 86400))
        /\ arg.damage # "none" => ~ret.out.ok

\* a token made at second 10 was accepted 86400 seconds later for its session
C39_Witness ==
    /\ ret.done
    /\ arg.damage = "none"
    /\ arg.session = arg.verifier
    /\ arg.time = 10
    /\ arg.now = 86410
    /\ ret.out.token.decoded.val.plain = <<arg.session, " ", "1", "0">>
    /\ ret.out.ok

(***************************************************************************)
(* Claims about the middleware of the API routes (SpecApi).                *)
(***************************************************************************)
\* the header reads Bearer, blanks, the configured token, and then ends or
\* goes on after a blank (blanks before Bearer do not count)
BearerWithToken(header) ==
    /\ header.some
    /\ \E a \in DOMAIN header.val : \E b \in DOMAIN header.val :
        /\ a + 1 < b
        /\ header.val[a] = "Bearer"
        /\ header.val[b] = ApiToken
        /\ \A i \in 1..(a - 1) : header.val[i] = Blank
        /\ \A i \in (a + 1)..(b - 1) : header.val[i] = Blank
        /\ b = Len(header.val) \/ header.val[b + 1] = Blank

\* C22: an API request reaches the handler of /api/show or /api/upload only if
\* its Authorization header gives the scheme Bearer and the configured token;
\* with no header, another scheme or another token it is answered 403
\* Forbidden, the handler does not run and no record or file is created.
C22_BearerTokenGuardsApi ==
    [][\A p \in Slots :
          /\ (pc[p] = "arrived" /\ pc'[p] # "arrived") =>
                IF BearerWithToken(arg[p].header)
                THEN pc'[p] = arg[p].route
                ELSE /\ pc'[p] = "done"
                     /\ req'[p].resp = "Forbidden"
                     /\ media' = media
                     /\ files' = files
          /\ (pc[p] # "arrived" /\ (pc'[p] # pc[p] \/ req'[p] # req[p]
                                     \/ media' # media \/ files' # files)) =>
                BearerWithToken(arg[p].header)]_vars

\* an upload that came with the token has stored its record and its files
C22_Witness ==
    \E p \in Slots :
        /\ pc[p] = "done" /\ req[p].kind = "api_upload" /\ req[p].resp = "ok"
        /\ BearerWithToken(arg[p].header)
        /\ \E k \in DOMAIN media : Some(media[k]) = req[p].record
        /\ OriginalPath(req[p].record.val.hash_id, req[p].record.val.extension) \in DOMAIN files

(***************************************************************************)
(* Claims about validate_image_file (SpecValidate).                        *)
(***************************************************************************)
\* the failures of validate_image_file, by the message the code reports
UnknownType == "Cannot determine file type"

UnsupportedType == "Unsupported file type"

TypeMismatch == "Unsupported image type"

\* the extension maps to a content type of the allow-list
ExtAllowed(a) ==
    /\ Extension(a.filename).some
    /\ \E ty \in ALLOWED_TYPES : MimeFromExt(Extension(a.filename).val) = Some(ty[1])

\* the extension maps to a content type
ExtMapped(a) ==
    /\ Extension(a.filename).some
    /\ MimeFromExt(Extension(a.filename).val).some

\* C6 (as stated): whenever extension, allow-listed type and sniffed format
\* agree, validate_image_file succeeds with the width and height of the image.
C6_AgreeSucceeds ==
    (ret.done /\ Agree(arg)) =>
        /\ ret.out.ok
        /\ ret.out.val.image.width = arg.data.width
        /\ ret.out.val.image.height = arg.data.height

\* C6 (amended): whenever extension, allow-listed type and sniffed format
\* agree, validate_image_file succeeds exactly when the body decodes as that
\* format, and then reports the width and height of the image and the sniffed
\* format; a body that does not decode is rejected.
C6_AgreeAndDecodesSucceeds ==
    (ret.done /\ Agree(arg)) =>
        /\ ret.out.ok = arg.data.decodes
        /\ ret.out.ok =>
            /\ ret.out.val.image.width = arg.data.width
            /\ ret.out.val.image.height = arg.data.height
            /\ ret.out.val.format = arg.data.magic

C6_Witness ==
    /\ ret.done
    /\ Agree(arg)
    /\ arg.data.decodes
    /\ arg.data.magic = "Jpeg"
    /\ ret.out.ok
    /\ ret.out.val.image.width = 1600

\* C7 (as stated): the checks run in the order extension, allow-list,
\* signature; no extension gives UnknownType, an extension that maps to no
\* content type or to one outside the allow-list gives UnsupportedType, a
\* sniffed format other than the extension's gives TypeMismatch.
C7_FailuresAsStated ==
    ret.done =>
        /\ ~Extension(arg.filename).some => (~ret.out.ok /\ ret.out.err = UnknownType)
        /\ (Extension(arg.filename).some /\ ~ExtAllowed(arg)) =>
                (~ret.out.ok /\ ret.out.err = UnsupportedType)
        /\ (ExtAllowed(arg) /\ ~Agree(arg)) => (~ret.out.ok /\ ret.out.err = TypeMismatch)

\* C7 (amended): the checks run in the order extension, allow-list,
\* signature; no extension, and also an extension that maps to no content
\* type, give UnknownType; an extension that maps to a content type outside
\* the allow-list gives UnsupportedType; a sniffed format that is absent or
\* other than the extension's gives TypeMismatch.
C7_FailuresInOrder ==
    ret.done =>
        /\ ~Extension(arg.filename).some => (~ret.out.ok /\ ret.out.err = UnknownType)
        /\ (Extension(arg.filename).some /\ ~ExtMapped(arg)) =>
                (~ret.out.ok /\ ret.out.err = UnknownType)
        /\ (ExtMapped(arg) /\ ~ExtAllowed(arg)) =>
                (~ret.out.ok /\ ret.out.err = UnsupportedType)
        /\ (ExtAllowed(arg) /\ ~Agree(arg)) => (~ret.out.ok /\ ret.out.err = TypeMismatch)
        /\ ret.out.ok => Agree(arg)

C7_Witness ==
    /\ ret.done
    /\ arg.filename = <<"a", ".", "q", "q">>
    /\ arg.data.magic = "Png"
    /\ ~ret.out.ok
    /\ ret.out.err = UnknownType

(***************************************************************************)
(* Claims about create_thumbnail (SpecThumb).                              *)
(***************************************************************************)
Abs(x) == IF x < 0 THEN -x ELSE x

BothOverflow(a) == a.width > THUMBNAIL_WIDTH /\ a.height > THUMBNAIL_HEIGHT

\* C8 (as stated): when width > 320 and height > 180 the thumbnail is exactly
\* 320 x 180, whatever the aspect ratio.
C8_ResampleExactBox ==
    (ret.done /\ BothOverflow(arg)) =>
        /\ ret.out.some
        /\ ret.out.val.width = THUMBNAIL_WIDTH
        /\ ret.out.val.height = THUMBNAIL_HEIGHT

\* C8 (amended): when width > 320 and height > 180 the thumbnail is the
\* source scaled to the largest size inside 320 x 180 that keeps its aspect
\* ratio: one side equals the box's, the other is the proportional length
\* rounded down (at least 1); it is 320 x 180 only for a source of ratio 16:9
\* up to that rounding.
C8_ResampleKeepsAspect ==
    (ret.done /\ BothOverflow(arg)) =>
        /\ ret.out.some
        /\ ret.out.val.op = "resize"
        /\ ret.out.val.width \in 1..THUMBNAIL_WIDTH
        /\ ret.out.val.height \in 1..THUMBNAIL_HEIGHT
        /\ ret.out.val.width = THUMBNAIL_WIDTH \/ ret.out.val.height = THUMBNAIL_HEIGHT
        /\ Abs(ret.out.val.width * arg.height - ret.out.val.height * arg.width)
              < Max(arg.width, arg.height)

C8_Witness ==
    /\ ret.done
    /\ arg = [width |-> 400, height |-> 2000]
    /\ ret.out.some
    /\ ret.out.val.width = 36
    /\ ret.out.val.height = 180

\* C9: create_thumbnail returns None exactly when width <= 320 and
\* height <= 180 (a 320 x 180 image yields None) and a derived image otherwise.
C9_NoneIffFits ==
    ret.done =>
        (~ret.out.some <=> (arg.width <= 320 /\ arg.height <= 180))

C9_Witness ==
    /\ ret.done
    /\ arg = [width |-> 320, height |-> 180]
    /\ ~ret.out.some

\* C10: when exactly one dimension overflows the box the thumbnail is a crop
\* of that dimension around the centre: width <= 320 and height > 180 gives
\* width x 180 from row floor((height - 180) / 2), height <= 180 and
\* width > 320 gives 320 x height from column floor((width - 320) / 2); the
\* subtraction does not wrap and the window lies inside the source.
C10_CentreCrop ==
    ret.done =>
        /\ (arg.width <= 320 /\ arg.height > 180) =>
            /\ ret.out.some
            /\ ret.out.val.op = "crop"
            /\ ~ret.out.val.wrapped
            /\ ret.out.val.x = 0
            /\ ret.out.val.y = (arg.height - 180) \div 2
            /\ ret.out.val.width = arg.width
            /\ ret.out.val.height = 180
            /\ ret.out.val.y + ret.out.val.height <= arg.height
            /\ arg.height - (ret.out.val.y + ret.out.val.height) - ret.out.val.y \in {0, 1}
        /\ (arg.height <= 180 /\ arg.width > 320) =>
            /\ ret.out.some
            /\ ret.out.val.op = "crop"
            /\ ~ret.out.val.wrapped
            /\ ret.out.val.y = 0
            /\ ret.out.val.x = (arg.width - 320) \div 2
            /\ ret.out.val.width = 320
            /\ ret.out.val.height = arg.height
            /\ ret.out.val.x + ret.out.val.width <= arg.width
            /\ arg.width - (ret.out.val.x + ret.out.val.width) - ret.out.val.x \in {0, 1}

C10_Witness ==
    /\ ret.done
    /\ arg = [width |-> 200, height |-> 800]
    /\ ret.out.some
    /\ ret.out.val.width = 200
    /\ ret.out.val.height = 180
    /\ ret.out.val.y = 310

====
